---- MODULE Spec2Model ----
(***************************************************************************)
(* A model of the AutoPkg processors of haircut-recipes.                   *)
(*                                                                         *)
(* AppIconExtractor (src/Processors/AppIconExtractor.py) is modelled as    *)
(* four specifications over the same state:                                *)
(*   SpecComposite    one call of composite_icon                           *)
(*   SpecNormalize    one call of save_icon_to_destination                 *)
(*   SpecRenormalize  that call, and one more on the icon it wrote         *)
(*   Spec             one run of main, step by step                        *)
(* StringInserter (src/Processors/StringInserter.py) is modelled as        *)
(*   SpecInsert       one run of its main                                  *)
(* and so are DatadogEventPoster (src/PostProcessors), JSONWebhookSender,  *)
(* DatetimeOutputter and FleetSoftwareUploader (src/Processors):           *)
(*   SpecDatadog, SpecWebhook, SpecDatetime, SpecFleet                     *)
(* Strings that the code inspects character by character (the badge        *)
(* string, which is either a path or base64 text) are sequences of         *)
(* one-character strings; the filesystem is keyed by such sequences.       *)
(* Strings that the code only compares or copies are sequences of longer   *)
(* pieces.                                                                 *)
(***************************************************************************)
EXTENDS Integers, Sequences, FiniteSets, TLC

(***************************************************************************)
(* Bounds of the model (not program constants).                            *)
(***************************************************************************)
\* longest byte string whose base64 encoding is offered as a badge
MaxBadgeBytes == 2
\* the valid paddings offered are 0, DefaultPadding, ..., MaxPadSteps * DefaultPadding
MaxPadSteps == 2
\* longest input string and insertion string offered to StringInserter
MaxStrLen == 2

(***************************************************************************)
(* base64, as the standard library computes it (base64.b64encode and       *)
(* base64.b64decode without validation, i.e. binascii.a2b_base64).         *)
(***************************************************************************)
B64Chars ==
  << "A","B","C","D","E","F","G","H","I","J","K","L","M","N","O","P",
     "Q","R","S","T","U","V","W","X","Y","Z","a","b","c","d","e","f",
     "g","h","i","j","k","l","m","n","o","p","q","r","s","t","u","v",
     "w","x","y","z","0","1","2","3","4","5","6","7","8","9","+","/" >>

\* characters with a code point above 127: bytes(s, encoding="ascii") rejects them
NonAscii == {"é"}

IsB64Char(c) == \E i \in 1..64 : B64Chars[i] = c

B64Val(c) == (CHOOSE i \in 1..64 : B64Chars[i] = c) - 1

B64Ch(v) == B64Chars[v + 1]

\* base64.b64encode: three bytes become four characters, "=" pads the last group
RECURSIVE b64encode(_)
b64encode(b) ==
  IF Len(b) = 0 THEN << >>
  ELSE IF Len(b) = 1 THEN
    << B64Ch(b[1] \div 4), B64Ch((b[1] % 4) * 16), "=", "=" >>
  ELSE IF Len(b) = 2 THEN
    << B64Ch(b[1] \div 4), B64Ch((b[1] % 4) * 16 + (b[2] \div 16)),
       B64Ch((b[2] % 16) * 4), "=" >>
  ELSE
    << B64Ch(b[1] \div 4), B64Ch((b[1] % 4) * 16 + (b[2] \div 16)),
       B64Ch((b[2] % 16) * 4 + (b[3] \div 64)), B64Ch(b[3] % 64) >>
    \o b64encode(SubSeq(b, 4, Len(b)))

\* binascii.a2b_base64 in its default (non-strict) mode, one character a step:
\* characters outside the alphabet are skipped, a complete pad sequence ends
\* the input, and a group left open at the end is an error.
RECURSIVE A2bLoop(_, _, _, _, _, _)
A2bLoop(s, i, quad, left, pads, out) ==
  IF i > Len(s) THEN
    IF quad # 0 THEN [ok |-> FALSE, bytes |-> << >>]
    ELSE [ok |-> TRUE, bytes |-> out]
  ELSE IF s[i] = "=" THEN
    IF quad >= 2 /\ quad + pads + 1 >= 4 THEN [ok |-> TRUE, bytes |-> out]
    ELSE A2bLoop(s, i + 1, quad, left, IF quad >= 2 THEN pads + 1 ELSE pads, out)
  ELSE IF ~IsB64Char(s[i]) THEN A2bLoop(s, i + 1, quad, left, pads, out)
  ELSE
    LET v == B64Val(s[i]) IN
    CASE quad = 0 -> A2bLoop(s, i + 1, 1, v, 0, out)
      [] quad = 1 -> A2bLoop(s, i + 1, 2, v % 16, 0,
                             Append(out, left * 4 + (v \div 16)))
      [] quad = 2 -> A2bLoop(s, i + 1, 3, v % 4, 0,
                             Append(out, left * 16 + (v \div 4)))
      [] OTHER    -> A2bLoop(s, i + 1, 0, 0, 0, Append(out, left * 64 + v))

b64decode(s) == A2bLoop(s, 1, 0, 0, 0, << >>)

\* AppIconExtractor.is_base64: the string is ASCII, decodes, and the decoded
\* bytes encode back to the very same string; any exception means False.
is_base64(s) ==
  IF \E i \in 1..Len(s) : s[i] \in NonAscii THEN FALSE
  ELSE LET d == b64decode(s) IN
       IF ~d.ok THEN FALSE ELSE b64encode(d.bytes) = s

(***************************************************************************)
(* Program constants.                                                      *)
(***************************************************************************)
\* the 256px representation every icon is brought to (icon.resize((256, 256)))
CanonicalSize == 256
\* self.env.get("composite_padding", 10)
DefaultPadding == 10
\* the embedded default badges (DEFAULT_ICON_*) are 64x64 PNG images
DefaultBadgeSize == 64

Canonical == << CanonicalSize, CanonicalSize >>

(***************************************************************************)
(* Values of the environment (self.env).  A value carries its Python type  *)
(* t, a string payload s and a numeric payload n (a float is held in       *)
(* tenths); "absent" is a key that is not set.                             *)
(***************************************************************************)
Absent     == [t |-> "absent", s |-> << >>, n |-> 0]
StrVal(s)  == [t |-> "str",    s |-> s,     n |-> 0]
IntVal(n)  == [t |-> "int",    s |-> << >>, n |-> n]
FloatVal(n) == [t |-> "float", s |-> << >>, n |-> n]
BoolVal(b) == [t |-> "bool",   s |-> << >>, n |-> IF b THEN 1 ELSE 0]

\* dict.get(key, default)
EnvGet(e, key, default) == IF e[key].t = "absent" THEN default ELSE e[key]

\* Python truthiness of a value, as `if self.env.get(key):` tests it
Truthy(v) ==
  CASE v.t = "absent" -> FALSE
    [] v.t = "str"    -> Len(v.s) > 0
    [] OTHER          -> v.n # 0

(***************************************************************************)
(* Images, as the imaging library (PIL) presents them to the code.         *)
(*   format    "ICNS", "ICO", "PNG", or another format name                *)
(*   hasSizes  whether info["sizes"] exists (multi-representation formats) *)
(*   sizes     info["sizes"]: tuples as the library lists them             *)
(*   size      pixel size of the loaded image                              *)
(*   mode      "RGBA", "RGB", "L"                                          *)
(*   layers    what the pixels are: the pastes that made the image, bottom *)
(*             first.  A layer is a w x h block of the pixels of picture   *)
(*             id, taken from its representation sel (sel # <<w, h>> means *)
(*             resampled), placed at (x, y), with alpha pattern pat.       *)
(***************************************************************************)
Layer(id, sel, w, h, x, y, pat, masked) ==
  [id |-> id, sel |-> sel, w |-> w, h |-> h, x |-> x, y |-> y,
   pat |-> pat, masked |-> masked]

NoImage ==
  [format |-> "", hasSizes |-> FALSE, sizes |-> {}, size |-> <<0, 0>>,
   mode |-> "", layers |-> << >>]

\* the pixel size of one entry of info["sizes"]: (w, h) or (w, h, scale)
RepPixels(t) == IF Len(t) = 3 THEN << t[1] * t[3], t[2] * t[3] >> ELSE << t[1], t[2] >>

\* alpha of the pixel (u, v) of a w x h block with pattern pat
PatAlpha(pat, w, h, u, v) ==
  CASE pat = "opaque" -> 255
    [] pat = "clear"  -> 0
    [] OTHER -> \* "rim": a transparent margin of one eighth around an opaque core
       IF u < w \div 8 \/ v < h \div 8 \/ u >= w - (w \div 8) \/ v >= h - (h \div 8)
       THEN 0 ELSE 255

Covers(l, px, py) == px >= l.x /\ px < l.x + l.w /\ py >= l.y /\ py < l.y + l.h

LayerPixel(l, px, py) ==
  [id |-> l.id, sel |-> l.sel, u |-> px - l.x, v |-> py - l.y,
   a |-> PatAlpha(l.pat, l.w, l.h, px - l.x, py - l.y)]

\* Image.paste(im, box) replaces the pixels under im; with a mask
\* (paste(im, box, im)) only where the mask is not zero.
Shows(l, px, py) ==
  Covers(l, px, py) /\ (l.masked => LayerPixel(l, px, py).a > 0)

NoPixel == [id |-> "", sel |-> <<0, 0>>, u |-> 0, v |-> 0, a |-> 0]

\* the pixel (px, py) of an image: that of the topmost layer showing there
PixelAt(img, px, py) ==
  LET ls == img.layers
      top == {i \in 1..Len(ls) : Shows(ls[i], px, py)}
  IN IF top = {} THEN NoPixel
     ELSE LayerPixel(ls[CHOOSE i \in top : \A j \in top : j <= i], px, py)

\* number of channels of a pixel format
Channels(mode) == CASE mode = "RGBA" -> 4 [] mode = "RGB" -> 3 [] OTHER -> 1

(***************************************************************************)
(* The filesystem: each path holds nothing ("none"), an image ("image") or *)
(* bytes that are no image ("data"); perm "none" denies reading and        *)
(* writing it; dir says whether its parent directory exists.               *)
(***************************************************************************)
FileOf(kind, perm, dir, img) == [kind |-> kind, perm |-> perm, dir |-> dir, img |-> img]

NoFile == FileOf("none", "rw", TRUE, NoImage)

\* os.path.exists
Exists(f, p) == p \in DOMAIN f /\ f[p].kind # "none"

\* Image.open(path): the exception it raises ("" for none) and the image
ImageOpen(f, p) ==
  IF ~Exists(f, p) THEN [exc |-> "FileNotFoundError", img |-> NoImage]
  ELSE IF f[p].perm = "none" THEN [exc |-> "PermissionError", img |-> NoImage]
  ELSE IF f[p].kind # "image" THEN [exc |-> "UnidentifiedImageError", img |-> NoImage]
  ELSE [exc |-> "", img |-> f[p].img]

\* Image.open(io.BytesIO(bytes)): the bytes are a PNG when they start with the
\* PNG signature; the model's inline badges are all of the default badge size.
ImageOpenBytes(b) ==
  IF Len(b) >= 2 /\ b[1] = 137 /\ b[2] = 80
  THEN [exc |-> "",
        img |-> [format |-> "PNG", hasSizes |-> FALSE, sizes |-> {},
                 size |-> << DefaultBadgeSize, DefaultBadgeSize >>, mode |-> "RGBA",
                 layers |-> << Layer("inline", << DefaultBadgeSize, DefaultBadgeSize >>,
                                     DefaultBadgeSize, DefaultBadgeSize, 0, 0,
                                     "rim", FALSE) >>]]
  ELSE [exc |-> "UnidentifiedImageError", img |-> NoImage]

\* image.save(path, format="png"): the exception it raises and the filesystem
\* it leaves.  PermissionError and FileNotFoundError are OSError (= IOError).
ImageSave(f, p, img) ==
  IF ~f[p].dir THEN [exc |-> "FileNotFoundError", fs |-> f]
  ELSE IF f[p].perm = "none" THEN [exc |-> "PermissionError", fs |-> f]
  ELSE [exc |-> "",
        fs |-> [f EXCEPT ![p] =
                  FileOf("image", "rw", TRUE,
                         [img EXCEPT !.format = "PNG", !.hasSizes = FALSE,
                                     !.sizes = {}])]]

\* the exception classes that an `except IOError` clause catches
IsIOError(exc) ==
  exc \in {"FileNotFoundError", "PermissionError", "UnidentifiedImageError", "OSError"}

\* icon.size = t (t in info["sizes"]) followed by load(): that representation
SelectSize(img, t) ==
  LET px == RepPixels(t) IN
  [img EXCEPT !.size = px,
              !.layers = << [img.layers[1] EXCEPT !.sel = px, !.w = px[1],
                                                  !.h = px[2]] >>]

\* icon.resize((256, 256)): a new image, the loaded one resampled
Resize(img) ==
  [img EXCEPT !.format = "", !.size = Canonical,
              !.layers = << [img.layers[1] EXCEPT !.w = CanonicalSize,
                                                  !.h = CanonicalSize] >>]

\* whether the pixels of a single-layer image were resampled
Resampled(img) ==
  Len(img.layers) >= 1 /\ img.layers[1].sel # << img.layers[1].w, img.layers[1].h >>

(***************************************************************************)
(* AppIconExtractor.save_icon_to_destination                               *)
(***************************************************************************)
NoPath == << >>

\* a variant that looks for the 256px representation of an ICO before the
\* larger ones
Pick256_ExactFirst(plat, icon) ==
  IF plat = "mac" THEN
    IF ~icon.hasSizes THEN [how |-> "KeyError", img |-> icon]
    ELSE IF <<128, 128, 2>> \in icon.sizes
      THEN [how |-> "selected", img |-> SelectSize(icon, <<128, 128, 2>>)]
    ELSE IF <<256, 256>> \in icon.sizes
      THEN [how |-> "selected", img |-> SelectSize(icon, <<256, 256>>)]
    ELSE [how |-> "resized", img |-> Resize(icon)]
  ELSE
    IF icon.format = "ICO" THEN
      IF <<256, 256>> \in icon.sizes
        THEN [how |-> "selected", img |-> SelectSize(icon, <<256, 256>>)]
      ELSE [how |-> "resized", img |-> Resize(icon)]
    ELSE IF icon.format = "PNG" THEN
      IF icon.size = <<256, 256>> THEN [how |-> "asis", img |-> icon]
      ELSE [how |-> "resized", img |-> Resize(icon)]
    ELSE [how |-> "asis", img |-> icon]

\* lines 301-338: bring the opened icon to its 256px representation.
\* how: "selected" (a representation was chosen, no resample), "resized",
\* "asis" (left as opened), or "KeyError" (info["sizes"] missing).
Pick256(plat, icon) ==
  IF plat = "mac" THEN
    IF ~icon.hasSizes THEN [how |-> "KeyError", img |-> icon]
    ELSE IF <<128, 128, 2>> \in icon.sizes
      THEN [how |-> "selected", img |-> SelectSize(icon, <<128, 128, 2>>)]
    ELSE IF <<256, 256>> \in icon.sizes
      THEN [how |-> "selected", img |-> SelectSize(icon, <<256, 256>>)]
    ELSE [how |-> "resized", img |-> Resize(icon)]
  ELSE \* is_windows()
    IF icon.format = "ICO" THEN
      IF <<1024, 1024>> \in icon.sizes THEN [how |-> "resized", img |-> Resize(icon)]
      ELSE IF <<512, 512>> \in icon.sizes THEN [how |-> "resized", img |-> Resize(icon)]
      ELSE IF <<256, 256>> \in icon.sizes
        THEN [how |-> "selected", img |-> SelectSize(icon, <<256, 256>>)]
      ELSE [how |-> "resized", img |-> Resize(icon)]
    ELSE IF icon.format = "PNG" THEN
      IF icon.size = <<1024, 1024>> THEN [how |-> "resized", img |-> Resize(icon)]
      ELSE IF icon.size = <<512, 512>> THEN [how |-> "resized", img |-> Resize(icon)]
      ELSE IF icon.size = <<256, 256>> THEN [how |-> "asis", img |-> icon]
      ELSE [how |-> "resized", img |-> Resize(icon)]
    ELSE [how |-> "asis", img |-> icon]

\* line 342: icon.convert("RGBA") returns a converted copy, which the code
\* drops; the icon itself keeps its mode.
ConvertDropped(icon) == icon

\* lines 347-360: the except clauses, tried in the order written.
\* FileNotFoundError and PermissionError are subclasses of OSError (IOError).
SaveIconExcept(exc, input_path, output_path) ==
  IF exc = "PermissionError" THEN
    [exc |-> "ProcessorError", path |-> output_path,
     msg |-> "Unable to save app icon to {} due to permissions."]
  ELSE IF IsIOError(exc) THEN
    [exc |-> "ProcessorError", path |-> output_path,
     msg |-> "Unable to save app icon to path {}."]
  ELSE IF exc = "ValueError" THEN
    [exc |-> "ProcessorError", path |-> input_path,
     msg |-> "Unable to open a 256px representation of the icon at {}."]
  ELSE IF exc = "FileNotFoundError" THEN
    [exc |-> "ProcessorError", path |-> input_path,
     msg |-> "Unable to open the source icon at path {}."]
  ELSE [exc |-> exc, path |-> NoPath, msg |-> ""]

\* The whole call.  exc is the exception that leaves the function ("" when it
\* returns), msg and path its message and the path the message names, ret
\* the returned path, fs the filesystem afterwards, img the icon as saved
\* and how what Pick256 did.
save_icon_to_destination(plat, f, input_path, output_path) ==
  LET opened == ImageOpen(f, input_path)
      failed(exc, img, how) ==
        LET e == SaveIconExcept(exc, input_path, output_path) IN
        [exc |-> e.exc, msg |-> e.msg, path |-> e.path, ret |-> NoPath,
         fs |-> f, img |-> img, how |-> how]
  IN
  IF opened.exc # "" THEN failed(opened.exc, NoImage, "")
  ELSE
    LET picked == Pick256(plat, opened.img) IN
    IF picked.how = "KeyError" THEN failed("KeyError", NoImage, "")
    ELSE
      LET icon  == ConvertDropped(picked.img)
          saved == ImageSave(f, output_path, icon)
      IN IF saved.exc # "" THEN failed(saved.exc, icon, picked.how)
         ELSE [exc |-> "", msg |-> "", path |-> NoPath, ret |-> output_path,
               fs |-> saved.fs, img |-> icon, how |-> picked.how]

(***************************************************************************)
(* AppIconExtractor.composite_icon                                         *)
(***************************************************************************)
UL == << "u", "l" >>
UR == << "u", "r" >>
BL == << "b", "l" >>
BR == << "b", "r" >>

\* a variant that resets an invalid position to "ul" instead of "br"
EffectivePosition_ResetToUL(e) ==
  LET position == EnvGet(e, "composite_position", StrVal(BR)) IN
  IF ~(position.t = "str" /\ position.s \in {UL, UR, BR, BL}) THEN UL
  ELSE position.s

\* lines 381-388: the position, reset to "br" when it is not one of the four
EffectivePosition(e) ==
  LET position == EnvGet(e, "composite_position", StrVal(BR)) IN
  IF ~(position.t = "str" /\ position.s \in {UL, UR, BR, BL}) THEN BR
  ELSE position.s

\* lines 389-396: `if not isinstance(padding, int) and padding >= 0:` resets
\* the padding to 10.  An int (or bool) never enters the test; for any other
\* type `padding >= 0` is evaluated, which raises TypeError for a str.
PaddingCheck(e) ==
  LET padding == EnvGet(e, "composite_padding", IntVal(DefaultPadding)) IN
  IF padding.t \in {"int", "bool"} THEN [exc |-> "", pad |-> padding]
  ELSE IF padding.t # "float" THEN [exc |-> "TypeError", pad |-> padding]
  ELSE IF padding.n >= 0 THEN [exc |-> "", pad |-> IntVal(DefaultPadding)]
  ELSE [exc |-> "", pad |-> padding]

\* a variant that decodes whatever is base64, existing path or not
ResolveForeground_Base64First(f, foreground) ==
  IF is_base64(foreground)
  THEN [from |-> "inline", path |-> NoPath, bytes |-> b64decode(foreground).bytes]
  ELSE [from |-> "disk", path |-> foreground, bytes |-> << >>]

\* lines 398-402: a foreground that is no existing path but is base64 is
\* replaced by its decoded bytes; otherwise it stays the string it was.
ResolveForeground(f, foreground) ==
  IF ~Exists(f, foreground) /\ is_base64(foreground)
  THEN [from |-> "inline", path |-> NoPath, bytes |-> b64decode(foreground).bytes]
  ELSE [from |-> "disk", path |-> foreground, bytes |-> << >>]

\* lines 415-453: the background brought to its 256px representation
BgPick256(plat, bg) ==
  IF plat = "mac" THEN
    IF ~bg.hasSizes THEN [how |-> "KeyError", img |-> bg]
    ELSE IF <<128, 128, 2>> \in bg.sizes
      THEN [how |-> "selected", img |-> SelectSize(bg, <<128, 128, 2>>)]
    ELSE IF <<256, 256>> \in bg.sizes
      THEN [how |-> "selected", img |-> SelectSize(bg, <<256, 256>>)]
    ELSE [how |-> "resized", img |-> Resize(bg)]
  ELSE \* is_windows()
    IF bg.format = "ICO" THEN
      IF <<1024, 1024>> \in bg.sizes THEN [how |-> "resized", img |-> Resize(bg)]
      ELSE IF <<512, 512>> \in bg.sizes THEN [how |-> "resized", img |-> Resize(bg)]
      ELSE IF <<256, 256>> \in bg.sizes
        THEN [how |-> "selected", img |-> SelectSize(bg, <<256, 256>>)]
      ELSE [how |-> "resized", img |-> Resize(bg)]
    ELSE IF bg.format = "PNG" THEN
      IF bg.size = <<1024, 1024>> THEN [how |-> "resized", img |-> Resize(bg)]
      ELSE IF bg.size = <<512, 512>> THEN [how |-> "resized", img |-> Resize(bg)]
      ELSE IF bg.size = <<256, 256>> THEN [how |-> "asis", img |-> bg]
      ELSE [how |-> "resized", img |-> Resize(bg)]
    ELSE [how |-> "asis", img |-> bg]

\* a variant whose new image is transparent instead of opaque black
OntoCanvas_ClearCanvas(bg) ==
  IF bg.mode = "RGBA" THEN bg
  ELSE [format |-> "", hasSizes |-> FALSE, sizes |-> {}, size |-> Canonical,
        mode |-> "RGBA",
        layers |-> << Layer("canvas", Canonical, CanonicalSize, CanonicalSize,
                            0, 0, "clear", FALSE),
                      [bg.layers[1] EXCEPT !.pat = "opaque"] >>]

\* lines 454-463: bg.convert("RGBA") is dropped; a background whose mode is
\* not RGBA is pasted at (0, 0) onto a new opaque black 256x256 RGBA image.
OntoCanvas(bg) ==
  IF bg.mode = "RGBA" THEN bg
  ELSE [format |-> "", hasSizes |-> FALSE, sizes |-> {}, size |-> Canonical,
        mode |-> "RGBA",
        layers |-> << Layer("canvas", Canonical, CanonicalSize, CanonicalSize,
                            0, 0, "opaque", FALSE),
                      [bg.layers[1] EXCEPT !.pat = "opaque"] >>]

\* line 466: Image.open(foreground).convert("RGBA")
OpenForeground(f, res) ==
  LET o == IF res.from = "inline" THEN ImageOpenBytes(res.bytes)
           ELSE ImageOpen(f, res.path)
  IN IF o.exc # "" THEN o
     ELSE [exc |-> "",
           img |-> [o.img EXCEPT
                      !.mode = "RGBA",
                      !.layers = << [o.img.layers[1] EXCEPT
                                       !.pat = IF o.img.mode = "RGBA" THEN @
                                               ELSE "opaque"] >>]]

\* a variant with the formulas of "ur" and "bl" exchanged
AnchorCoords_SwappedCorners(position, bgsize, fgsize, padding) ==
  IF position = UL THEN << 0 + padding, 0 + padding >>
  ELSE IF position = UR THEN << 0 + padding, bgsize[2] - (fgsize[2] + padding) >>
  ELSE IF position = BL THEN << bgsize[1] - (fgsize[1] + padding), 0 + padding >>
  ELSE << bgsize[1] - (fgsize[1] + padding), bgsize[2] - (fgsize[2] + padding) >>

\* a variant that insets the badge by half the padding
AnchorCoords_HalfPadding(position, bgsize, fgsize, padding) ==
  LET half == padding \div 2 IN
  IF position = UL THEN << 0 + half, 0 + half >>
  ELSE IF position = UR THEN << bgsize[1] - (fgsize[1] + half), 0 + half >>
  ELSE IF position = BL THEN << 0 + half, bgsize[2] - (fgsize[2] + half) >>
  ELSE << bgsize[1] - (fgsize[1] + half), bgsize[2] - (fgsize[2] + half) >>

\* lines 468-481: the coordinates at which the foreground is pasted
AnchorCoords(position, bgsize, fgsize, padding) ==
  IF position = UL THEN << 0 + padding, 0 + padding >>
  ELSE IF position = UR THEN << bgsize[1] - (fgsize[1] + padding), 0 + padding >>
  ELSE IF position = BL THEN << 0 + padding, bgsize[2] - (fgsize[2] + padding) >>
  ELSE << bgsize[1] - (fgsize[1] + padding), bgsize[2] - (fgsize[2] + padding) >>

\* lines 486-488: composite = bg.copy(); composite.paste(fg, coords) -- the
\* call that passes fg as the mask as well is commented out.
PasteForeground(bg, fg, coords) ==
  [bg EXCEPT !.layers = Append(@, [fg.layers[1] EXCEPT !.x = coords[1],
                                                       !.y = coords[2],
                                                       !.masked = FALSE])]

\* a variant that pastes onto the background itself
PasteOnCopy_InPlace(bg, fg, coords) ==
  [bg |-> PasteForeground(bg, fg, coords),
   composite |-> PasteForeground(bg, fg, coords)]

\* lines 486-488: the paste is made on composite, a copy of bg; bg itself
\* stays as it was opened
PasteOnCopy(bg, fg, coords) ==
  [bg |-> bg, composite |-> PasteForeground(bg, fg, coords)]

\* a variant whose handler swallows the error of composite.save
CompositeSaveExcept_Swallows(exc, output_path) ==
  [exc |-> "", path |-> NoPath, msg |-> ""]

\* a variant that turns only PermissionError into a ProcessorError
CompositeSaveExcept_PermissionOnly(exc, output_path) ==
  IF exc = "PermissionError"
  THEN [exc |-> "ProcessorError", path |-> output_path,
        msg |-> "Unable to save output to {}"]
  ELSE [exc |-> exc, path |-> NoPath, msg |-> ""]

\* lines 489-492: only IOError is turned into a ProcessorError
CompositeSaveExcept(exc, output_path) ==
  IF IsIOError(exc)
  THEN [exc |-> "ProcessorError", path |-> output_path,
        msg |-> "Unable to save output to {}"]
  ELSE [exc |-> exc, path |-> NoPath, msg |-> ""]

\* The whole call.  exc, msg, path, ret and fs as for
\* save_icon_to_destination; the other fields record what the call did:
\* position and padding as used, where the badge came from, the background
\* and foreground as pasted, the paste coordinates, and the composite.
CompositeResult(exc, msg, path, ret, f, position, pad, res, bg, fg, coords, composite) ==
  [exc |-> exc, msg |-> msg, path |-> path, ret |-> ret, fs |-> f,
   position |-> position, pad |-> pad, from |-> res.from, bytes |-> res.bytes,
   bg |-> bg, fg |-> fg, coords |-> coords, composite |-> composite]

composite_icon(plat, e, f, icon_path, foreground, output_path) ==
  LET position == EffectivePosition(e)
      checked  == PaddingCheck(e)
      nores    == [from |-> "", path |-> NoPath, bytes |-> << >>]
      raise(exc, res, bg, fg) ==
        CompositeResult(exc, "", NoPath, NoPath, f, position, checked.pad, res,
                        bg, fg, <<0, 0>>, NoImage)
  IN
  IF checked.exc # "" THEN raise(checked.exc, nores, NoImage, NoImage)
  ELSE
    LET res    == ResolveForeground(f, foreground)
        opened == ImageOpen(f, icon_path)
    IN
    IF opened.exc # "" THEN raise(opened.exc, res, NoImage, NoImage)
    ELSE
      LET picked == BgPick256(plat, opened.img) IN
      IF picked.how = "KeyError" THEN raise("KeyError", res, NoImage, NoImage)
      ELSE
        LET bg == OntoCanvas(picked.img)
            fo == OpenForeground(f, res)
        IN
        IF fo.exc # "" THEN raise(fo.exc, res, bg, NoImage)
        \* a float padding makes float coordinates, which paste() rejects
        ELSE IF checked.pad.t = "float" THEN raise("TypeError", res, bg, fo.img)
        ELSE
          LET fg        == fo.img
              coords    == AnchorCoords(position, bg.size, fg.size, checked.pad.n)
              pasted    == PasteOnCopy(bg, fg, coords)
              composite == pasted.composite
              saved     == ImageSave(f, output_path, composite)
          IN
          IF saved.exc # "" THEN
            LET x == CompositeSaveExcept(saved.exc, output_path) IN
            CompositeResult(x.exc, x.msg, x.path, NoPath, f, position,
                            checked.pad, res, pasted.bg, fg, coords, composite)
          ELSE
            CompositeResult("", "", NoPath, output_path, saved.fs, position,
                            checked.pad, res, pasted.bg, fg, coords, composite)

(***************************************************************************)
(* State.                                                                  *)
(*   platform  "mac" or "windows" (is_mac() / is_windows())                *)
(*   env       self.env                                                    *)
(*   fs        the filesystem                                              *)
(*   fs0       the filesystem as the run found it                          *)
(*   pc        where the run is                                            *)
(*   arg       the arguments of the call under way (icon path, foreground, *)
(*             output path), and in main the located icon path; in         *)
(*             SpecInsert the locals of StringInserter.main; in            *)
(*             SpecDatetime the readings of the clock; in SpecFleet the    *)
(*             message of the error raised                                 *)
(*   norm      the outcome of the last save_icon_to_destination call       *)
(*   comp      the outcome of the last composite_icon call                 *)
(*   raised    the exception that left the run ("" for none)               *)
(*   app       main's source: whether it lies in a disk image, what the    *)
(*             locating step finds                                         *)
(*   mounted   whether the disk image is mounted                           *)
(*   http      the HTTP requests the run has made (through curl), in order, *)
(*             and the response to the last of them                        *)
(***************************************************************************)
VARIABLES platform, env, fs, fs0, pc, arg, norm, comp, raised, app, mounted, http

vars == << platform, env, fs, fs0, pc, arg, norm, comp, raised, app, mounted, http >>

\* paths of the model
SrcIcon      == << "a", ".", "i" >>
OutIcon      == << "o", ".", "p" >>
DefaultOut   == << "n", ".", "p" >>
OutInstall   == << "1", ".", "p" >>
OutUninstall == << "2", ".", "p" >>
OutUpdate    == << "3", ".", "p" >>
\* a badge file, and a file whose name happens to be valid base64
BadgeFile    == << "b", ".", "p" >>
IconName     == << "i", "c", "o", "n" >>

Paths == {SrcIcon, OutIcon, DefaultOut, OutInstall, OutUninstall, OutUpdate,
          BadgeFile, IconName}

\* lines 70-72: the embedded default badges, each cut to its first twelve
\* characters (the base64 of the PNG signature and the first length byte)
DEFAULT_ICON_UPDATE    == << "i","V","B","O","R","w","0","K","G","g","o","A" >>
DEFAULT_ICON_INSTALL   == << "i","V","B","O","R","w","0","K","G","g","o","A" >>
DEFAULT_ICON_UNINSTALL == << "i","V","B","O","R","w","0","K","G","g","o","A" >>

EnvKeys == {"composite_position", "composite_padding", "icon_output_path",
            "composite_install_path", "composite_install_template",
            "composite_update_path", "composite_update_template",
            "composite_uninstall_path", "composite_uninstall_template",
            "app_icon_path", "install_icon_path", "update_icon_path",
            "uninstall_icon_path"}

EmptyEnv == [k \in EnvKeys |-> Absent]

NoNorm == [exc |-> "", msg |-> "", path |-> NoPath, ret |-> NoPath,
           img |-> NoImage, how |-> ""]
NoComp == [exc |-> "", msg |-> "", path |-> NoPath, ret |-> NoPath,
           position |-> NoPath, pad |-> Absent, from |-> "", bytes |-> << >>,
           bg |-> NoImage, fg |-> NoImage, coords |-> <<0, 0>>,
           composite |-> NoImage]
NoArg == [icon_path |-> NoPath, foreground |-> NoPath, output_path |-> NoPath]
NoApp == [dmg |-> FALSE, mount |-> "ok", kind |-> "", plist |-> "ok", lib |-> "",
          extract |-> "ok"]

(***************************************************************************)
(* Inputs.                                                                 *)
(***************************************************************************)
Picture(id, format, sizes, size, mode, pat) ==
  [format |-> format, hasSizes |-> format \in {"ICNS", "ICO"}, sizes |-> sizes,
   size |-> size, mode |-> mode,
   layers |-> << Layer(id, size, size[1], size[2], 0, 0, pat, FALSE) >>]

SrcImage(format, sizes, size, mode, pat) == Picture("icon", format, sizes, size, mode, pat)

\* the loaded size of a multi-representation icon is its largest representation
Largest(sizes) ==
  RepPixels(CHOOSE t \in sizes : \A u \in sizes : RepPixels(u)[1] <= RepPixels(t)[1])

IcnsReps == {<<16, 16, 1>>, <<128, 128, 2>>, <<256, 256, 1>>, <<512, 512, 2>>}
IcoReps  == {<<16, 16>>, <<256, 256>>, <<512, 512>>, <<1024, 1024>>}

\* every source icon of the model
SourceImages ==
  {SrcImage("ICNS", S, Largest(S), m, "opaque") :
      S \in (SUBSET IcnsReps) \ {{}}, m \in {"RGBA", "RGB"}}
  \cup {SrcImage("ICO", S, Largest(S), m, "opaque") :
      S \in (SUBSET IcoReps) \ {{}}, m \in {"RGBA", "RGB"}}
  \cup {SrcImage("PNG", {}, sz, m, "opaque") :
      sz \in {<<256, 256>>, <<512, 512>>, <<1024, 1024>>, <<100, 50>>},
      m \in {"RGBA", "RGB", "L"}}
  \cup {SrcImage("BMP", {}, sz, m, "opaque") :
      sz \in {<<256, 256>>, <<300, 200>>}, m \in {"RGBA", "RGB"}}

\* a sample of them, with transparent and opaque pixels
SourceSample ==
  {SrcImage("ICNS", {<<16, 16, 1>>, <<128, 128, 2>>, <<512, 512, 2>>},
            <<1024, 1024>>, "RGBA", "rim"),
   SrcImage("ICNS", {<<16, 16, 1>>, <<256, 256, 1>>}, <<256, 256>>, "RGB", "opaque"),
   SrcImage("ICO", {<<16, 16>>, <<256, 256>>}, <<256, 256>>, "RGBA", "rim"),
   SrcImage("ICO", {<<256, 256>>, <<512, 512>>}, <<512, 512>>, "RGBA", "opaque"),
   SrcImage("PNG", {}, <<256, 256>>, "RGBA", "rim"),
   SrcImage("PNG", {}, <<512, 512>>, "L", "opaque"),
   SrcImage("BMP", {}, <<300, 200>>, "RGBA", "rim"),
   SrcImage("BMP", {}, <<100, 50>>, "RGB", "opaque")}

\* badge images on disk: the usual small badge, one without alpha, one
\* larger than the icon
BadgeImages ==
  {Picture("badge", "PNG", {}, << DefaultBadgeSize, DefaultBadgeSize >>, "RGBA", "rim"),
   Picture("badge", "PNG", {}, << DefaultBadgeSize, DefaultBadgeSize >>, "RGB", "opaque"),
   Picture("badge", "PNG", {}, <<300, 300>>, "RGBA", "clear")}

ImageFile(img) == FileOf("image", "rw", TRUE, img)

\* where a file may be written, may not (permissions), or has no directory
OutputStates == {NoFile, FileOf("none", "none", TRUE, NoImage),
                 FileOf("none", "rw", FALSE, NoImage)}

\* composite_position: unset, the four anchors, and values that are none of them
PositionInputs ==
  {Absent, StrVal(UL), StrVal(UR), StrVal(BL), StrVal(BR),
   StrVal(<< "t", "l" >>), StrVal(<< "B", "R" >>), IntVal(1)}

\* composite_padding: unset, non-negative integers, and invalid values
PaddingInputs ==
  {Absent} \cup {IntVal(k * DefaultPadding) : k \in 0..MaxPadSteps}
  \cup {IntVal(-5), StrVal(<< "1", "0" >>), FloatVal(25), FloatVal(-15),
        BoolVal(TRUE)}

ByteValues == {0, 80, 137, 255}

RECURSIVE ByteSeqs(_)
ByteSeqs(n) ==
  IF n = 0 THEN {<< >>}
  ELSE LET shorter == ByteSeqs(n - 1) IN
       shorter \cup {Append(b, v) : b \in {c \in shorter : Len(c) = n - 1},
                                    v \in ByteValues}

\* badge strings: the base64 of byte strings, base64 text that is not in
\* canonical form (a trailing non-alphabet character, non-zero pad bits, a
\* missing pad), a non-ASCII string, and the two file names
BadgeStrings ==
  {b64encode(b) : b \in ByteSeqs(MaxBadgeBytes)}
  \cup {DEFAULT_ICON_INSTALL,
        << "i", "V", "A", "=", "." >>, << "i", "V", "B", "=" >>,
        << "i", "V", "A" >>, << "é" >>, BadgeFile, IconName}

(***************************************************************************)
(* SpecComposite: one call of composite_icon.                              *)
(***************************************************************************)
\* no HTTP request made, no response received
NoHttp == [requests |-> << >>, response |-> [kind |-> ""]]

Rest == /\ norm = NoNorm /\ comp = NoComp /\ raised = ""
        /\ mounted = FALSE /\ fs0 = fs /\ http = NoHttp

\* every position and padding, over a sample of icons and badges
GeometryInputs ==
  \E pos \in PositionInputs, pad \in PaddingInputs, src \in SourceSample,
     badge \in BadgeImages \cup {NoImage}, out \in {NoFile, FileOf("none", "none", TRUE, NoImage)} :
    /\ env = [EmptyEnv EXCEPT !["composite_position"] = pos,
                              !["composite_padding"] = pad]
    /\ fs = [p \in Paths |->
               IF p = SrcIcon THEN ImageFile(src)
               ELSE IF p = BadgeFile /\ badge # NoImage THEN ImageFile(badge)
               ELSE IF p = OutInstall THEN out
               ELSE NoFile]
    /\ arg = [icon_path |-> SrcIcon,
              foreground |-> IF badge = NoImage THEN DEFAULT_ICON_INSTALL ELSE BadgeFile,
              output_path |-> OutInstall]

\* every badge string, over the files that may or may not exist under its name
BadgeInputs ==
  \E fg \in BadgeStrings, out \in OutputStates,
     src \in {ImageFile(i) : i \in {j \in SourceSample : j.format \in {"ICNS", "ICO"}
                                                       /\ j.mode = "RGBA"}}
             \cup {NoFile},
     bf \in {ImageFile(i) : i \in {j \in BadgeImages : j.mode = "RGBA"}}
            \cup {NoFile, FileOf("data", "rw", TRUE, NoImage)},
     nf \in {NoFile, ImageFile(Picture("badge", "PNG", {}, <<32, 32>>, "RGBA", "opaque"))} :
    /\ env = EmptyEnv
    /\ fs = [p \in Paths |->
               IF p = SrcIcon THEN src
               ELSE IF p = BadgeFile THEN bf
               ELSE IF p = IconName THEN nf
               ELSE IF p = OutInstall THEN out
               ELSE NoFile]
    /\ arg = [icon_path |-> SrcIcon, foreground |-> fg, output_path |-> OutInstall]

InitComposite ==
  /\ platform \in {"mac", "windows"}
  /\ pc = "call"
  /\ (GeometryInputs \/ BadgeInputs)
  /\ app = NoApp
  /\ Rest

Strip(r) == [k \in DOMAIN r \ {"fs"} |-> r[k]]

CallComposite ==
  /\ pc = "call"
  /\ LET r == composite_icon(platform, env, fs, arg.icon_path, arg.foreground,
                             arg.output_path)
     IN /\ comp' = Strip(r)
        /\ fs' = r.fs
        /\ raised' = r.exc
        /\ pc' = IF r.exc = "" THEN "returned" ELSE "raised"
  /\ UNCHANGED << http, platform, env, fs0, arg, norm, app, mounted >>

NextComposite == CallComposite

SpecComposite == InitComposite /\ [][NextComposite]_vars

(***************************************************************************)
(* SpecNormalize: one call of save_icon_to_destination.                    *)
(***************************************************************************)
InitNormalize ==
  /\ platform \in {"mac", "windows"}
  /\ pc = "call"
  /\ env = EmptyEnv
  /\ app = NoApp
  /\ \E src \in {ImageFile(i) : i \in SourceImages}
                \cup {NoFile, FileOf("data", "rw", TRUE, NoImage),
                      FileOf("image", "none", TRUE, CHOOSE i \in SourceSample : TRUE)},
        out \in OutputStates :
       /\ fs = [p \in Paths |-> IF p = SrcIcon THEN src
                                ELSE IF p = OutIcon THEN out ELSE NoFile]
       /\ arg = [icon_path |-> SrcIcon, foreground |-> NoPath, output_path |-> OutIcon]
  /\ Rest

CallSave ==
  /\ pc = "call"
  /\ LET r == save_icon_to_destination(platform, fs, arg.icon_path, arg.output_path)
     IN /\ norm' = Strip(r)
        /\ fs' = r.fs
        /\ raised' = r.exc
        /\ pc' = IF r.exc = "" THEN "returned" ELSE "raised"
  /\ UNCHANGED << http, platform, env, fs0, arg, comp, app, mounted >>

NextNormalize == CallSave

SpecNormalize == InitNormalize /\ [][NextNormalize]_vars

(***************************************************************************)
(* AppIconExtractor.main, step by step.                                    *)
(*                                                                         *)
(* app describes main's source_app:                                        *)
(*   dmg      the path lies inside a disk image (parsePathForDMG)          *)
(*   mount    whether mounting the image works ("ok") or fails ("fail")    *)
(*   kind     "app" (a mac bundle), "nothing" (no such path), or what      *)
(*            get_filetype finds on Windows: "msi", "dll", "exe", "ico",   *)
(*            "png", "other"                                               *)
(*   plist    the bundle's Info.plist: "ok", "invalid" or "missing"        *)
(*   lib      for an msi, the type of the icon library taken out of it     *)
(*   extract  whether icoextract gets an .ico out of an exe or dll         *)
(* The icon that locating finds, if any, is the file SrcIcon.              *)
(***************************************************************************)
Kinds == {"install", "uninstall", "update"}

PathKey(k) ==
  CASE k = "install" -> "composite_install_path"
    [] k = "uninstall" -> "composite_uninstall_path"
    [] OTHER -> "composite_update_path"

TemplateKey(k) ==
  CASE k = "install" -> "composite_install_template"
    [] k = "uninstall" -> "composite_uninstall_template"
    [] OTHER -> "composite_update_template"

OutputKey(k) ==
  CASE k = "install" -> "install_icon_path"
    [] k = "uninstall" -> "uninstall_icon_path"
    [] OTHER -> "update_icon_path"

DefaultTemplate(k) ==
  CASE k = "install" -> DEFAULT_ICON_INSTALL
    [] k = "uninstall" -> DEFAULT_ICON_UNINSTALL
    [] OTHER -> DEFAULT_ICON_UPDATE

\* get_app_icon_path (lines 250-284): the icon path, None, or an exception
get_app_icon_path(plat, a, f) ==
  IF a.kind = "nothing" THEN [exc |-> "", path |-> NoPath]
  ELSE IF plat = "mac" THEN
    IF a.plist = "missing" THEN [exc |-> "FileNotFoundError", path |-> NoPath]
    ELSE IF a.plist = "invalid" THEN [exc |-> "", path |-> NoPath]
    ELSE IF Exists(f, SrcIcon) THEN [exc |-> "", path |-> SrcIcon]
    ELSE [exc |-> "", path |-> NoPath]
  ELSE
    \* a RuntimeError of IconExtractor is caught and icoExtInst stays unbound;
    \* a file without icons raises NoIconsAvailableError
    IF a.extract = "RuntimeError" THEN [exc |-> "UnboundLocalError", path |-> NoPath]
    ELSE IF a.extract = "NoIcons" THEN [exc |-> "NoIconsAvailableError", path |-> NoPath]
    ELSE IF Exists(f, SrcIcon) THEN [exc |-> "", path |-> SrcIcon]
    ELSE [exc |-> "", path |-> NoPath]

\* lines 576-613: how main comes by app_icon_path.  out is "path" (go on
\* with path), "raise" (exc leaves main) or "return" (main returns None).
LocateIcon(plat, a, f) ==
  IF plat = "windows" THEN
    IF a.kind = "msi" THEN
      IF a.lib \in {"exe", "dll"} THEN
        LET g == get_app_icon_path(plat, a, f) IN
        IF g.exc # "" THEN [out |-> "raise", exc |-> g.exc, path |-> NoPath]
        ELSE [out |-> "path", exc |-> "", path |-> g.path]
      ELSE IF a.lib = "ico" THEN [out |-> "path", exc |-> "", path |-> SrcIcon]
      ELSE [out |-> "return", exc |-> "", path |-> NoPath]
    ELSE IF a.kind = "exe" THEN
      LET g == get_app_icon_path(plat, a, f) IN
      IF g.exc # "" THEN [out |-> "raise", exc |-> g.exc, path |-> NoPath]
      ELSE [out |-> "path", exc |-> "", path |-> g.path]
    ELSE IF a.kind = "png" THEN [out |-> "path", exc |-> "", path |-> SrcIcon]
    ELSE IF a.kind = "ico" THEN [out |-> "path", exc |-> "", path |-> SrcIcon]
    ELSE [out |-> "return", exc |-> "", path |-> NoPath]
  ELSE
    LET g == get_app_icon_path(plat, a, f) IN
    IF g.exc # "" THEN [out |-> "raise", exc |-> g.exc, path |-> NoPath]
    ELSE IF g.path = NoPath THEN [out |-> "raise", exc |-> "ProcessorError", path |-> NoPath]
    ELSE [out |-> "path", exc |-> "", path |-> g.path]

\* lines 561-574: parse the source path and mount the disk image it is in
MainStart ==
  /\ pc = "start"
  /\ IF app.dmg
     THEN IF app.mount = "ok"
          THEN mounted' = TRUE /\ pc' = "locate" /\ raised' = raised
          ELSE mounted' = mounted /\ pc' = "raised" /\ raised' = "ProcessorError"
     ELSE mounted' = mounted /\ pc' = "locate" /\ raised' = raised
  /\ UNCHANGED << http, platform, env, fs, fs0, arg, norm, comp, app >>

\* lines 576-613
MainLocate ==
  /\ pc = "locate"
  /\ LET l == LocateIcon(platform, app, fs) IN
     /\ arg' = [arg EXCEPT !.icon_path = l.path]
     /\ raised' = l.exc
     /\ pc' = CASE l.out = "path" -> "save"
                [] l.out = "raise" -> "raised"
                [] OTHER -> "returned"
  /\ UNCHANGED << http, platform, env, fs, fs0, norm, comp, app, mounted >>

\* lines 616-623: the output path of the plain icon; the directory of a
\* given icon_output_path is made when it is missing
IconOutputPath(e) ==
  IF Truthy(e["icon_output_path"]) THEN e["icon_output_path"].s ELSE DefaultOut

MakeDirs(f, e) ==
  IF Truthy(e["icon_output_path"])
  THEN [f EXCEPT ![e["icon_output_path"].s].dir = TRUE]
  ELSE f

\* a variant that records app_icon_path before the icon is saved
AppIconPathSet_Early(e, r, out) == [e EXCEPT !["app_icon_path"] = StrVal(out)]

\* line 626: self.env["app_icon_path"] = icon_path, reached only when
\* save_icon_to_destination returned
AppIconPathSet(e, r, out) ==
  IF r.exc = "" THEN [e EXCEPT !["app_icon_path"] = StrVal(r.ret)] ELSE e

\* lines 615-626.  A located path of None makes Image.open raise
\* AttributeError, which no clause of save_icon_to_destination catches.
MainSave ==
  /\ pc = "save"
  /\ LET out == IconOutputPath(env)
         f1  == MakeDirs(fs, env)
         r   == IF arg.icon_path = NoPath
                THEN [exc |-> "AttributeError", msg |-> "", path |-> NoPath,
                      ret |-> NoPath, fs |-> f1, img |-> NoImage, how |-> ""]
                ELSE save_icon_to_destination(platform, f1, arg.icon_path, out)
     IN /\ norm' = Strip(r)
        /\ fs' = r.fs
        /\ env' = AppIconPathSet(env, r, out)
        /\ arg' = [arg EXCEPT !.output_path = out]
        /\ raised' = r.exc
        /\ pc' = IF r.exc = "" THEN "install" ELSE "raised"
  /\ UNCHANGED << http, platform, fs0, comp, app, mounted >>

\* lines 628-659: the composites are made in this order
NextAfter(k) ==
  CASE k = "install" -> "uninstall"
    [] k = "uninstall" -> "update"
    [] OTHER -> "unmount"

\* a variant in which a failed composite does not stop main
AfterComposite_GoesOn(k, exc) == NextAfter(k)

\* an exception of composite_icon leaves main at once
AfterComposite(k, exc) == IF exc = "" THEN NextAfter(k) ELSE "raised"

\* one of the three blocks of lines 628-659
MainComposite(k) ==
  /\ pc = k
  /\ IF Truthy(env[PathKey(k)])
     THEN LET path     == env[PathKey(k)].s
              template == EnvGet(env, TemplateKey(k), StrVal(DefaultTemplate(k))).s
              r        == composite_icon(platform, env, fs, arg.icon_path, template, path)
          IN /\ comp' = Strip(r)
             /\ fs' = r.fs
             /\ arg' = [arg EXCEPT !.foreground = template, !.output_path = path]
             /\ env' = IF r.exc = "" THEN [env EXCEPT ![OutputKey(k)] = StrVal(r.ret)]
                       ELSE env
             /\ raised' = r.exc
             /\ pc' = AfterComposite(k, r.exc)
     ELSE /\ pc' = NextAfter(k)
          /\ UNCHANGED << comp, fs, arg, env, raised >>
  /\ UNCHANGED << http, platform, fs0, norm, app, mounted >>

\* lines 661-663
MainUnmount ==
  /\ pc = "unmount"
  /\ mounted' = IF app.dmg THEN FALSE ELSE mounted
  /\ pc' = "done"
  /\ UNCHANGED << http, platform, env, fs, fs0, arg, norm, comp, raised, app >>

\* the sources main is run on: a mac bundle (alone or in a disk image), and
\* on Windows each file type
MainApps ==
  {[platform |-> "mac",
    app |-> [dmg |-> d[1], mount |-> d[2], kind |-> k, plist |-> pl, lib |-> "",
             extract |-> "ok"]] :
     d \in {<<FALSE, "ok">>, <<TRUE, "ok">>, <<TRUE, "fail">>},
     k \in {"app"}, pl \in {"ok", "invalid", "missing"}}
  \cup
  {[platform |-> "mac",
    app |-> [dmg |-> FALSE, mount |-> "ok", kind |-> "nothing", plist |-> "ok",
             lib |-> "", extract |-> "ok"]]}
  \cup
  {[platform |-> "windows",
    app |-> [dmg |-> FALSE, mount |-> "ok", kind |-> k, plist |-> "ok", lib |-> "",
             extract |-> "ok"]] :
     k \in {"dll", "exe", "ico", "png", "other", "nothing"}}
  \cup
  {[platform |-> "windows",
    app |-> [dmg |-> FALSE, mount |-> "ok", kind |-> "exe", plist |-> "ok", lib |-> "",
             extract |-> x]] :
     x \in {"RuntimeError", "NoIcons"}}
  \cup
  {[platform |-> "windows",
    app |-> [dmg |-> FALSE, mount |-> "ok", kind |-> "msi", plist |-> "ok", lib |-> l,
             extract |-> "ok"]] :
     l \in {"exe", "ico", "other"}}

\* the icon file that goes with a source: what a bundle's icon file may hold
\* on mac, the file itself for a png or ico, the extracted .ico otherwise
IconFilesOf(pa) ==
  LET icns == SrcImage("ICNS", {<<16, 16, 1>>, <<128, 128, 2>>, <<512, 512, 2>>},
                       <<1024, 1024>>, "RGBA", "rim")
      ico  == SrcImage("ICO", {<<16, 16>>, <<256, 256>>}, <<256, 256>>, "RGBA", "rim")
      png  == SrcImage("PNG", {}, <<512, 512>>, "RGB", "opaque")
  IN
  IF pa.platform = "mac" THEN
    IF pa.app.kind = "app" /\ pa.app.plist = "ok"
    THEN {ImageFile(icns), ImageFile(png), NoFile, FileOf("data", "rw", TRUE, NoImage),
          FileOf("image", "none", TRUE, icns)}
    ELSE {ImageFile(icns)}
  ELSE IF pa.app.kind = "png" THEN {ImageFile(png)}
  ELSE IF pa.app.kind = "nothing" THEN {NoFile}
  ELSE IF pa.app.kind \in {"exe", "msi"} THEN {ImageFile(ico), NoFile}
  ELSE {ImageFile(ico), FileOf("data", "rw", TRUE, NoImage)}

\* a composite is not asked for, asked for at a writable path, or asked for
\* at a path that cannot be written
Requests == {"no", "writable", "unwritable"}

CompositePath(k) ==
  CASE k = "install" -> OutInstall
    [] k = "uninstall" -> OutUninstall
    [] OTHER -> OutUpdate

Init ==
  /\ pc = "start"
  /\ \E pa \in MainApps :
       /\ platform = pa.platform
       /\ app = pa.app
       /\ \E icon \in IconFilesOf(pa), req \in [Kinds -> Requests],
             given \in BOOLEAN, iconout \in {"default", "given", "unwritable"} :
            /\ env = [k \in EnvKeys |->
                        IF \E c \in Kinds : k = PathKey(c) /\ req[c] # "no"
                          THEN StrVal(CompositePath(CHOOSE c \in Kinds : k = PathKey(c)))
                        ELSE IF (\E c \in Kinds : k = TemplateKey(c)) /\ given
                          THEN StrVal(BadgeFile)
                        ELSE IF k = "icon_output_path" /\ iconout # "default"
                          THEN StrVal(OutIcon)
                        ELSE Absent]
            /\ fs = [p \in Paths |->
                       IF p = SrcIcon THEN icon
                       ELSE IF p = BadgeFile
                         THEN ImageFile(CHOOSE b \in BadgeImages : b.size = <<64, 64>> /\ b.mode = "RGBA")
                       ELSE IF p = OutIcon
                         THEN IF iconout = "unwritable" THEN FileOf("none", "none", FALSE, NoImage)
                              ELSE FileOf("none", "rw", FALSE, NoImage)
                       ELSE IF \E c \in Kinds : p = CompositePath(c) /\ req[c] = "unwritable"
                         THEN FileOf("none", "none", TRUE, NoImage)
                       ELSE NoFile]
  /\ arg = NoArg
  /\ Rest

Next ==
  \/ MainStart
  \/ MainLocate
  \/ MainSave
  \/ \E k \in Kinds : MainComposite(k)
  \/ MainUnmount

Spec == Init /\ [][Next]_vars

(***************************************************************************)
(* SpecRenormalize: save_icon_to_destination called on a source, and then  *)
(* once more on the icon that the first call wrote.                        *)
(***************************************************************************)
InitRenormalize == InitNormalize

NormalizeAgain ==
  /\ pc = "returned"
  /\ arg.icon_path = SrcIcon
  /\ LET r == save_icon_to_destination(platform, fs, arg.output_path, DefaultOut)
     IN /\ norm' = Strip(r)
        /\ fs' = r.fs
        /\ raised' = r.exc
        /\ pc' = IF r.exc = "" THEN "returned" ELSE "raised"
  /\ arg' = [icon_path |-> arg.output_path, foreground |-> NoPath,
             output_path |-> DefaultOut]
  /\ UNCHANGED << http, platform, env, fs0, comp, app, mounted >>

NextRenormalize == CallSave \/ NormalizeAgain

SpecRenormalize == InitRenormalize /\ [][NextRenormalize]_vars

(***************************************************************************)
(* StringInserter (src/Processors/StringInserter.py).                      *)
(*                                                                         *)
(* SpecInsert is one run of StringInserter.main.  env holds the            *)
(* processor's variables, arg the locals of main (lines 44-47) once it has *)
(* read them.                                                              *)
(***************************************************************************)
\* s[i:j] bounds for step 1: a negative index counts from the end, and an
\* index outside the string is clipped to it
SliceIndex(i, n) ==
  IF i < 0 THEN (IF i + n < 0 THEN 0 ELSE i + n)
  ELSE IF i > n THEN n ELSE i

\* s[:i]
SliceTo(s, i) == SubSeq(s, 1, SliceIndex(i, Len(s)))

\* s[i:]
SliceFrom(s, i) == SubSeq(s, SliceIndex(i, Len(s)) + 1, Len(s))

Suffix == << "s", "u", "f", "f", "i", "x" >>

\* a variant that replaces the character at the index by the insertion
StringInsert_Overwrites(input_string, insertion_string, index) ==
  IF index = StrVal(Suffix)
  THEN [exc |-> "", out |-> input_string \o insertion_string]
  ELSE IF index.t # "int" THEN [exc |-> "TypeError", out |-> << >>]
  ELSE [exc |-> "",
        out |-> SliceTo(input_string, index.n) \o insertion_string
                  \o SliceFrom(input_string, index.n + 1)]

\* lines 49-52: the output string, or the TypeError of slicing with an
\* index that is no integer
StringInsert(input_string, insertion_string, index) ==
  IF index = StrVal(Suffix)
  THEN [exc |-> "", out |-> input_string \o insertion_string]
  ELSE IF index.t # "int" THEN [exc |-> "TypeError", out |-> << >>]
  ELSE [exc |-> "",
        out |-> SliceTo(input_string, index.n) \o insertion_string
                  \o SliceFrom(input_string, index.n)]

OutputString == << "o", "u", "t" >>
CustomName   == << "r", "e", "s" >>

\* the names under which the model's env holds StringInserter's variables
InserterKey(name) ==
  CASE name = OutputString -> "output_string"
    [] OTHER -> "custom"

InserterKeys == {"input_string", "insertion_string", "index",
                 "output_variable_name", "output_string", "custom"}

NoLocals == [input_string |-> << >>, insertion_string |-> << >>, index |-> Absent,
             output_variable_name |-> << >>]

RECURSIVE Strings(_)
Strings(n) ==
  IF n = 0 THEN {<< >>}
  ELSE LET shorter == Strings(n - 1) IN
       shorter \cup {Append(b, c) : b \in {x \in shorter : Len(x) = n - 1},
                                    c \in {"a", "b"}}

\* index: unset, integers from before the start to beyond the end, "suffix",
\* and a digit given as a string
IndexInputs ==
  {Absent, StrVal(Suffix), StrVal(<< "1" >>)}
  \cup {IntVal(i) : i \in (0 - (MaxStrLen + 1))..(MaxStrLen + 1)}

InitInsert ==
  /\ platform = "mac"
  /\ pc = "call"
  /\ \E s \in Strings(MaxStrLen), t \in Strings(MaxStrLen), i \in IndexInputs,
        name \in {Absent, StrVal(CustomName)} :
       env = [k \in InserterKeys |->
                CASE k = "input_string" -> StrVal(s)
                  [] k = "insertion_string" -> StrVal(t)
                  [] k = "index" -> i
                  [] k = "output_variable_name" -> name
                  [] OTHER -> Absent]
  /\ fs = [p \in Paths |-> NoFile]
  /\ arg = NoLocals
  /\ app = NoApp
  /\ Rest

\* lines 42-54
InserterMain ==
  /\ pc = "call"
  /\ LET input_string         == env["input_string"].s
         insertion_string     == env["insertion_string"].s
         index                == EnvGet(env, "index", IntVal(0))
         output_variable_name == EnvGet(env, "output_variable_name",
                                        StrVal(OutputString)).s
         r == StringInsert(input_string, insertion_string, index)
     IN /\ arg' = [input_string |-> input_string,
                   insertion_string |-> insertion_string, index |-> index,
                   output_variable_name |-> output_variable_name]
        /\ raised' = r.exc
        /\ env' = IF r.exc = ""
                  THEN [env EXCEPT ![InserterKey(output_variable_name)] = StrVal(r.out)]
                  ELSE env
        /\ pc' = IF r.exc = "" THEN "returned" ELSE "raised"
  /\ UNCHANGED << http, platform, fs, fs0, norm, comp, app, mounted >>

NextInsert == InserterMain

SpecInsert == InitInsert /\ [][NextInsert]_vars

(***************************************************************************)
(* DatadogEventPoster (src/PostProcessors/DatadogEventPoster.py).          *)
(*                                                                         *)
(* SpecDatadog is one run of DatadogEventPoster.main.  What post_event     *)
(* gets back is an input of the run: curl fails ("curl_error"), the body   *)
(* is no JSON ("not_json"), is JSON but no object ("json_list"), or is an  *)
(* object ("json") with or without "event", and in it "id" and "url".      *)
(***************************************************************************)
ListVal(items) == [t |-> "list", s |-> items, n |-> Len(items)]

DatadogKeys == {"download_changed", "IGNORE_UNCHANGED_DOWNLOAD", "DD_TAGS",
                "datadog_event_id", "datadog_event_url"}

EventResponse(hasEvent, hasId, hasUrl) ==
  [kind |-> "json", hasEvent |-> hasEvent, hasId |-> hasId, hasUrl |-> hasUrl,
   id |-> 7, url |-> << "u", "7" >>]

DatadogResponses ==
  {[kind |-> k, hasEvent |-> FALSE, hasId |-> FALSE, hasUrl |-> FALSE,
    id |-> 0, url |-> << >>] : k \in {"curl_error", "not_json", "json_list"}}
  \cup {EventResponse(FALSE, FALSE, FALSE)}
  \cup {EventResponse(TRUE, i, u) : i \in BOOLEAN, u \in BOOLEAN}

\* a variant that posts only for a changed download
ShouldPost_ChangedOnly(e) == Truthy(e["download_changed"])

\* lines 107-109: main goes on unless the download is unchanged and
\* unchanged downloads are not ignored
ShouldPost(e) ==
  LET ignore_unchanged == EnvGet(e, "IGNORE_UNCHANGED_DOWNLOAD", BoolVal(FALSE)) IN
  ~(~Truthy(e["download_changed"]) /\ ~Truthy(ignore_unchanged))

\* lines 112-113: a DD_TAGS given as one string becomes a list of one
TagsAsList(e) ==
  IF e["DD_TAGS"].t = "str" THEN [e EXCEPT !["DD_TAGS"] = ListVal(<< e["DD_TAGS"].s >>)]
  ELSE e

\* lines 131-137: the response is read key by key and each output variable
\* is set as soon as its value is read; any exception ends the block and is
\* printed
SetEventOutputs(e, response) ==
  IF response.kind # "json" \/ ~response.hasEvent \/ ~response.hasId THEN e
  ELSE LET withId == [e EXCEPT !["datadog_event_id"] = IntVal(response.id)] IN
       IF ~response.hasUrl THEN withId
       ELSE [withId EXCEPT !["datadog_event_url"] = StrVal(response.url)]

FlagInputs == {Absent, BoolVal(TRUE), BoolVal(FALSE), StrVal(<< >>),
               StrVal(<< "n", "o" >>), IntVal(0), IntVal(1)}

InitDatadog ==
  /\ platform = "mac"
  /\ pc = "call"
  /\ \E changed \in FlagInputs, ignore \in FlagInputs,
        tags \in {Absent, StrVal(<< "t" >>), ListVal(<< << "t" >>, << "u" >> >>)} :
       env = [k \in DatadogKeys |->
                CASE k = "download_changed" -> changed
                  [] k = "IGNORE_UNCHANGED_DOWNLOAD" -> ignore
                  [] k = "DD_TAGS" -> tags
                  [] OTHER -> Absent]
  /\ fs = [p \in Paths |-> NoFile]
  /\ arg = NoArg
  /\ app = NoApp
  /\ Rest

\* lines 103-137; exit() at line 109 raises SystemExit
DatadogMain ==
  /\ pc = "call"
  /\ IF ~ShouldPost(env)
     THEN /\ pc' = "raised"
          /\ raised' = "SystemExit"
          /\ UNCHANGED << env, http >>
     ELSE \E response \in DatadogResponses :
            /\ http' = [requests |-> Append(http.requests,
                                            [method |-> "POST",
                                             tags |-> TagsAsList(env)["DD_TAGS"]]),
                        response |-> response]
            /\ env' = SetEventOutputs(TagsAsList(env), response)
            /\ pc' = "returned"
            /\ raised' = ""
  /\ UNCHANGED << platform, fs, fs0, arg, norm, comp, app, mounted >>

NextDatadog == DatadogMain

SpecDatadog == InitDatadog /\ [][NextDatadog]_vars

(***************************************************************************)
(* JSONWebhookSender (src/Processors/JSONWebhookSender.py).                *)
(*                                                                         *)
(* SpecWebhook is one run of JSONWebhookSender.main.  A dict (the payload, *)
(* json_webhook_additional_fields) is a function from its keys to values;  *)
(* the value of a variable that is not set (None) is Absent.               *)
(***************************************************************************)
DictVal(d) == [t |-> "dict", s |-> << >>, n |-> Cardinality(DOMAIN d), d |-> d]

\* dict.update, and the loop of assignments payload[field] = ...
DictUpdate(a, b) ==
  [k \in DOMAIN a \cup DOMAIN b |-> IF k \in DOMAIN b THEN b[k] ELSE a[k]]

WebhookKeys == {"NAME", "version", "name", "pkg", "extra",
                "json_webhook_include_autopkg_variables",
                "json_webhook_additional_fields", "json_webhook_response"}

\* a variant that applies the additional fields before the included variables
BuildPayload_FieldsFirst(e) ==
  LET named    == [k \in {"name"} |-> e["NAME"]]
      versioned == IF Truthy(e["version"])
                   THEN DictUpdate(named, [k \in {"version"} |-> e["version"]])
                   ELSE named
      included == EnvGet(e, "json_webhook_include_autopkg_variables", ListVal(<< >>)).s
      fields   == IF Truthy(e["json_webhook_additional_fields"])
                  THEN DictUpdate(versioned, e["json_webhook_additional_fields"].d)
                  ELSE versioned
  IN DictUpdate(fields, [k \in {included[i] : i \in 1..Len(included)} |-> e[k]])

\* lines 95-111: the payload, built in four steps
BuildPayload(e) ==
  LET named    == [k \in {"name"} |-> e["NAME"]]
      versioned == IF Truthy(e["version"])
                   THEN DictUpdate(named, [k \in {"version"} |-> e["version"]])
                   ELSE named
      included == EnvGet(e, "json_webhook_include_autopkg_variables", ListVal(<< >>)).s
      withVars == DictUpdate(versioned,
                             [k \in {included[i] : i \in 1..Len(included)} |-> e[k]])
  IN IF Truthy(e["json_webhook_additional_fields"])
     THEN DictUpdate(withVars, e["json_webhook_additional_fields"].d)
     ELSE withVars

InitWebhook ==
  /\ platform = "mac"
  /\ pc = "call"
  /\ \E version \in {Absent, StrVal(<< >>), StrVal(<< "2" >>)},
        pkg \in {Absent, StrVal(<< "p" >>)},
        name \in {Absent, StrVal(<< "n" >>)},
        include \in {Absent} \cup
                    {ListVal(l) : l \in {<< >>, << "pkg" >>, << "name" >>, << "extra" >>,
                                         << "version", "pkg" >>, << "pkg", "pkg" >>}},
        keys \in {{}, {"extra"}, {"name"}, {"pkg", "version"}},
        given \in BOOLEAN :
       env = [k \in WebhookKeys |->
                CASE k = "NAME" -> StrVal(<< "N" >>)
                  [] k = "version" -> version
                  [] k = "pkg" -> pkg
                  [] k = "name" -> name
                  [] k = "json_webhook_include_autopkg_variables" -> include
                  [] k = "json_webhook_additional_fields" ->
                       IF given THEN DictVal([f \in keys |-> StrVal(<< "s" >>)])
                       ELSE Absent
                  [] OTHER -> Absent]
  /\ fs = [p \in Paths |-> NoFile]
  /\ arg = NoArg
  /\ app = NoApp
  /\ Rest

\* lines 92-117: the payload is sent once; the response is stored when it
\* is JSON, and any exception of sending is printed
WebhookMain ==
  /\ pc = "call"
  /\ \E kind \in {"json", "not_json", "curl_error"} :
       /\ http' = [requests |-> Append(http.requests, [payload |-> BuildPayload(env)]),
                   response |-> [kind |-> kind]]
       /\ env' = IF kind = "json"
                 THEN [env EXCEPT !["json_webhook_response"] = StrVal(<< "o", "k" >>)]
                 ELSE env
  /\ pc' = "returned"
  /\ UNCHANGED << platform, fs, fs0, arg, norm, comp, raised, app, mounted >>

SpecWebhook == InitWebhook /\ [][WebhookMain]_vars

(***************************************************************************)
(* DatetimeOutputter (src/Processors/DatetimeOutputter.py).                *)
(*                                                                         *)
(* SpecDatetime is one run of DatetimeOutputter.main.  A datetime is a     *)
(* record [day, hour, minute] (the day counted within the year, seconds    *)
(* and below left out); a format is a sequence of tokens, each a directive *)
(* (%j, %H, %M) or a literal; a timedelta is a number of minutes.  In this *)
(* specification arg holds the two readings of the clock, local and utc.   *)
(***************************************************************************)
\* longest list of deltas offered to DatetimeOutputter
MaxDeltas == 2

DatetimeKeys == {"datetime_format", "use_utc", "deltas", "datetime", "out1", "out2"}

\* the default format "%Y-%m-%dT%H:%M:%S.%f%z"
DefaultFormat == << "%j", "T", "%H", ":", "%M" >>

\* datetime +/- timedelta
Shift(t, minutes) ==
  LET m == (t.day * 24 + t.hour) * 60 + t.minute + minutes
  IN [day |-> m \div 1440, hour |-> (m % 1440) \div 60, minute |-> m % 60]

\* timedelta(**interval): the keyword arguments timedelta accepts
TimedeltaKeys == {"days", "seconds", "microseconds", "milliseconds", "minutes",
                  "hours", "weeks"}

Timedelta(interval) ==
  LET of(k) == IF k \in DOMAIN interval THEN interval[k] ELSE 0
  IN of("weeks") * 10080 + of("days") * 1440 + of("hours") * 60 + of("minutes")

\* datetime.strftime: directives are replaced by zero-padded numbers,
\* literals are copied
RECURSIVE Strftime(_, _)
Strftime(t, format) ==
  LET digit(n) == << "0", "1", "2", "3", "4", "5", "6", "7", "8", "9" >>[n + 1]
      two(n)   == << digit(n \div 10), digit(n % 10) >>
      token    == Head(format)
  IN IF format = << >> THEN << >>
     ELSE (CASE token = "%j" -> << digit(t.day \div 100) >> \o two(t.day % 100)
             [] token = "%H" -> two(t.hour)
             [] token = "%M" -> two(t.minute)
             [] OTHER -> << token >>) \o Strftime(t, Tail(format))

\* line 102: the literals matched by T(\d{2}):(\d{2}):(\d{2})Z at the end
\* of a format, with the hour and minute they hold
HardcodedTimes ==
  [l \in {"T17:55:00Z", "T25:00:00Z"} |->
     IF l = "T17:55:00Z" THEN [hour |-> 17, minute |-> 55]
     ELSE [hour |-> 25, minute |-> 0]]

\* a variant that adds the interval whatever the direction
DeltaBase_AlwaysFuture(current_datetime, direction, diff) ==
  Shift(current_datetime, diff)

\* lines 95-98
DeltaBase(current_datetime, direction, diff) ==
  IF direction = "past" THEN Shift(current_datetime, 0 - diff)
  ELSE Shift(current_datetime, diff)

\* lines 75-78
CurrentDatetime(e, clock) == IF Truthy(e["use_utc"]) THEN clock.utc ELSE clock.local

\* lines 93-115: the body of the loop for one delta.  exc is "" when
\* the delta set its variable, "caught" when the except clause printed the
\* error, and "KeyError" when the error is not one the clause catches.
ProcessDelta(e, current_datetime, delta) ==
  LET format_string == IF "format" \in DOMAIN delta THEN delta["format"]
                       ELSE StrVal(DefaultFormat)
      tokens   == format_string.s
      matched  == /\ tokens # << >>
                  /\ tokens[Len(tokens)] \in DOMAIN HardcodedTimes
      time     == HardcodedTimes[tokens[Len(tokens)]]
      shifted  == DeltaBase(current_datetime, delta["direction"],
                            Timedelta(delta["interval"]))
      base_datetime == IF matched
                       THEN [shifted EXCEPT !.hour = time.hour, !.minute = time.minute]
                       ELSE shifted
  IN CASE "interval" \notin DOMAIN delta -> [env |-> e, exc |-> "KeyError"]
       [] OTHER ->
     CASE ~(DOMAIN delta["interval"] \subseteq TimedeltaKeys) -> [env |-> e, exc |-> "caught"]
       [] OTHER ->
     CASE "direction" \notin DOMAIN delta -> [env |-> e, exc |-> "KeyError"]
       [] format_string.t # "str" -> [env |-> e, exc |-> "caught"]
       [] OTHER ->
     CASE matched /\ time.hour > 23 -> [env |-> e, exc |-> "caught"]
       [] "output_name" \notin DOMAIN delta -> [env |-> e, exc |-> "KeyError"]
       [] OTHER ->
          [env |-> [e EXCEPT ![delta["output_name"]] =
                               StrVal(Strftime(base_datetime, tokens))],
           exc |-> ""]

\* lines 92-115: the loop; an error the except clause does not catch ends it
RECURSIVE RunDeltas(_, _, _)
RunDeltas(e, current_datetime, deltas) ==
  LET r == ProcessDelta(e, current_datetime, Head(deltas))
  IN IF deltas = << >> THEN [env |-> e, exc |-> ""]
     ELSE IF r.exc = "KeyError" THEN r
     ELSE RunDeltas(r.env, current_datetime, Tail(deltas))

DeltaChoices ==
  LET plain == << "%j", " ", "%H", ":", "%M" >>
  IN { [interval |-> [days |-> 1], direction |-> "past", output_name |-> "out1"],
       [interval |-> [hours |-> 25, minutes |-> 45], direction |-> "future",
        format |-> StrVal(plain), output_name |-> "out2"],
       [interval |-> [weeks |-> 1], direction |-> "sideways",
        format |-> StrVal(<< "%j" >>), output_name |-> "out2"],
       [interval |-> [hours |-> 1], direction |-> "future",
        format |-> StrVal(<< "%H", ":", "%M", " ", "%j", "T17:55:00Z" >>),
        output_name |-> "out2"],
       [interval |-> [days |-> 1], direction |-> "past",
        format |-> StrVal(<< "%j", "T17:55:00Z" >>), output_name |-> "out1"],
       [interval |-> [days |-> 1], direction |-> "past",
        format |-> StrVal(<< "%j", "T25:00:00Z" >>), output_name |-> "out1"],
       [interval |-> [months |-> 1], direction |-> "past", output_name |-> "out1"],
       [interval |-> [days |-> 1], output_name |-> "out1"],
       [interval |-> [days |-> 1], direction |-> "future"],
       [direction |-> "future", output_name |-> "out1"],
       [interval |-> [days |-> 1], direction |-> "future", format |-> IntVal(7),
        output_name |-> "out1"] }

RECURSIVE DeltaLists(_)
DeltaLists(n) ==
  IF n = 0 THEN {<< >>}
  ELSE DeltaLists(n - 1) \cup
       {Append(l, d) : l \in {x \in DeltaLists(n - 1) : Len(x) = n - 1}, d \in DeltaChoices}

InitDatetime ==
  /\ platform = "mac"
  /\ pc = "call"
  /\ \E format \in {Absent, StrVal(<< "%j", " ", "%H", ":", "%M" >>), IntVal(7)},
        utc \in {Absent, BoolVal(TRUE)},
        deltas \in {Absent} \cup {ListVal(l) : l \in DeltaLists(MaxDeltas)} :
       env = [k \in DatetimeKeys |->
                CASE k = "datetime_format" -> format
                  [] k = "use_utc" -> utc
                  [] k = "deltas" -> deltas
                  [] OTHER -> Absent]
  /\ \E local \in {[day |-> 100, hour |-> 0, minute |-> 30],
                   [day |-> 100, hour |-> 23, minute |-> 40]},
        offset \in {0, 120} :
       arg = [local |-> local, utc |-> Shift(local, offset)]
  /\ fs = [p \in Paths |-> NoFile]
  /\ app = NoApp
  /\ Rest

\* lines 73-115
DatetimeMain ==
  /\ pc = "call"
  /\ LET current_datetime == CurrentDatetime(env, arg)
         output_format == EnvGet(env, "datetime_format", StrVal(DefaultFormat))
         dated == [env EXCEPT !["datetime"] =
                                StrVal(Strftime(current_datetime, output_format.s))]
         r == IF Truthy(env["deltas"])
              THEN RunDeltas(dated, current_datetime, env["deltas"].s)
              ELSE [env |-> dated, exc |-> ""]
     IN IF output_format.t # "str"
        THEN /\ pc' = "raised" /\ raised' = "ProcessorError" /\ env' = env
        ELSE /\ env' = r.env
             /\ pc' = IF r.exc = "KeyError" THEN "raised" ELSE "returned"
             /\ raised' = IF r.exc = "KeyError" THEN "KeyError" ELSE ""
  /\ UNCHANGED << http, platform, fs, fs0, arg, norm, comp, app, mounted >>

SpecDatetime == InitDatetime /\ [][DatetimeMain]_vars

(***************************************************************************)
(* FleetSoftwareUploader (src/Processors/FleetSoftwareUploader.py).        *)
(*                                                                         *)
(* SpecFleet is one run of FleetSoftwareUploader.main.  In this            *)
(* specification arg holds the message of the error main raised.           *)
(***************************************************************************)
FleetOptionalFields == {"install_script", "pre_install_query", "post_install_script",
                        "self_service"}

\* what curl may bring back: a failure of curl, text that is no JSON, or a
\* JSON object with or without "message" and "errors"
FleetResponses ==
  {[kind |-> k, message |-> Absent, errors |-> Absent] : k \in {"curl_error", "not_json"}}
  \cup
  {[kind |-> "json", message |-> m, errors |-> e] :
     m \in {Absent, StrVal(<< "Resource Already Exists" >>), StrVal(<< "Bad request" >>),
            StrVal(<< "Validation Failed" >>)},
     e \in {Absent} \cup
           {ListVal(l) : l \in {<< >>, << [reason |-> "r1"] >>, << [name |-> "n"] >>,
                                << [reason |-> "r1"], [reason |-> "r2"] >>}}}

\* lines 116-128: what main does with the response
FleetClassify(response) ==
  LET message == response.message
      errors  == IF response.errors = Absent THEN << << >> >> ELSE response.errors.s
      reason  == IF "reason" \in DOMAIN errors[1] THEN errors[1]["reason"]
                 ELSE "Unknown error"
  IN CASE response.kind = "curl_error" -> [exc |-> "ProcessorError", msg |-> << "curl" >>]
       [] response.kind = "not_json" -> [exc |-> "JSONDecodeError", msg |-> << >>]
       [] message = StrVal(<< "Resource Already Exists" >>) -> [exc |-> "", msg |-> << >>]
       [] message = StrVal(<< "Bad request" >>) ->
            IF errors = << >> THEN [exc |-> "IndexError", msg |-> << >>]
            ELSE [exc |-> "ProcessorError", msg |-> << "Failure: ", reason >>]
       [] message = Absent -> [exc |-> "", msg |-> << >>]
       [] OTHER -> [exc |-> "ProcessorError",
                    msg |-> << "Unexpected response: " >> \o message.s]

InitFleet ==
  /\ platform = "mac"
  /\ pc = "call"
  /\ \E given \in SUBSET FleetOptionalFields :
       env = [k \in FleetOptionalFields \cup {"pkg_path", "team_id"} |->
                IF k \in given \/ k \notin FleetOptionalFields THEN StrVal(<< "v" >>)
                ELSE Absent]
  /\ fs = [p \in Paths |-> NoFile]
  /\ arg = NoArg
  /\ app = NoApp
  /\ Rest

\* lines 89-128: one request, then the classification of its response
FleetMain ==
  /\ pc = "call"
  /\ \E response \in FleetResponses :
       LET r == FleetClassify(response) IN
       /\ http' = [requests |->
                     Append(http.requests,
                            [method |-> "POST",
                             fields |-> {"team_id", "software"} \cup
                                        {f \in FleetOptionalFields : Truthy(env[f])}]),
                   response |-> response]
       /\ raised' = r.exc
       /\ arg' = [message |-> r.msg]
       /\ pc' = IF r.exc = "" THEN "returned" ELSE "raised"
  /\ UNCHANGED << platform, env, fs, fs0, norm, comp, app, mounted >>

SpecFleet == InitFleet /\ [][FleetMain]_vars

(***************************************************************************)
(* Properties of composite_icon, checked under SpecComposite.              *)
(***************************************************************************)
Called == pc \in {"returned", "raised"}

\* the call got as far as pasting the badge
Pasted == Called /\ comp.composite # NoImage

PositionGiven == env["composite_position"]
PaddingGiven  == env["composite_padding"]

\* C1: for each of the four anchor tokens the badge is pasted with its
\* top-left corner at ul -> (p, p); ur -> (W - w - p, p); bl -> (p, H - h - p);
\* br -> (W - w - p, H - h - p), with W, H the size of the base after
\* normalization, w, h the size of the badge and p the padding in effect.
C1_AnchorFormula ==
  Pasted =>
    LET W == comp.bg.size[1]  H == comp.bg.size[2]
        w == comp.fg.size[1]  h == comp.fg.size[2]
        p == comp.pad.n
    IN /\ PositionGiven = StrVal(UL) => comp.coords = << p, p >>
       /\ PositionGiven = StrVal(UR) => comp.coords = << W - w - p, p >>
       /\ PositionGiven = StrVal(BL) => comp.coords = << p, H - h - p >>
       /\ PositionGiven = StrVal(BR) => comp.coords = << W - w - p, H - h - p >>
       /\ comp.composite.layers[Len(comp.composite.layers)].x = comp.coords[1]
       /\ comp.composite.layers[Len(comp.composite.layers)].y = comp.coords[2]

\* a lower-left paste on a 300x200 base: (20, 200 - 64 - 20)
C1_Witness ==
  /\ pc = "returned"
  /\ PositionGiven = StrVal(BL)
  /\ comp.bg.size = <<300, 200>>
  /\ comp.coords = <<20, 116>>

IsAnchorToken(v) == v \in {StrVal(UL), StrVal(UR), StrVal(BL), StrVal(BR)}

\* C2: for every composite_position that is none of ul, ur, bl, br (or is not
\* set), the call gives the paste coordinates and the output it gives for br
\* with the same base, badge and padding.
C2_InvalidPositionIsBR ==
  (Called /\ ~IsAnchorToken(PositionGiven)) =>
    LET br == composite_icon(platform,
                             [env EXCEPT !["composite_position"] = StrVal(BR)],
                             fs0, arg.icon_path, arg.foreground, arg.output_path)
    IN /\ comp.coords = br.coords
       /\ comp.composite = br.composite
       /\ comp.ret = br.ret
       /\ raised = br.exc
       /\ fs = br.fs

\* an unknown token, pasted at the lower-right point (256 - 64 - 10 both ways)
C2_Witness ==
  /\ pc = "returned"
  /\ PositionGiven = StrVal(<< "t", "l" >>)
  /\ comp.coords = <<182, 182>>
  /\ Exists(fs, arg.output_path)

\* a padding that is invalid: a negative integer, or not an integer at all
InvalidPadding(v) == v.t \in {"str", "float"} \/ (v.t = "int" /\ v.n < 0)

\* C3: for every invalid composite_padding the call substitutes the default
\* 10 and computes the coordinates from p = 10; it never uses the invalid
\* value and never fails because of it.
C3_InvalidPaddingBecomesDefault ==
  (Called /\ InvalidPadding(PaddingGiven)) =>
    /\ raised # "TypeError"
    /\ Pasted =>
         /\ comp.pad = IntVal(DefaultPadding)
         /\ comp.coords = AnchorCoords(comp.position, comp.bg.size, comp.fg.size,
                                       DefaultPadding)

\* the columns and rows at which pixels are compared: the edges of the
\* image, of the badge's box, and of the badge's opaque core
ProbeAlong(lo, len, limit) ==
  {c \in {0, limit - 1, lo - 1, lo, lo + (len \div 8) - 1, lo + (len \div 8),
          lo + (len \div 2), lo + len - 1, lo + len} : c >= 0 /\ c < limit}

BadgeLayer == comp.composite.layers[Len(comp.composite.layers)]

\* C4: the badge is pasted with its own alpha channel as the mask: every
\* base pixel under a fully transparent badge pixel, and every base pixel
\* outside the badge's box, is the same in the composite as in the base.
C4_AlphaMaskedPaste ==
  pc = "returned" =>
    \A px \in ProbeAlong(comp.coords[1], comp.fg.size[1], comp.bg.size[1]),
       py \in ProbeAlong(comp.coords[2], comp.fg.size[2], comp.bg.size[2]) :
      (~Covers(BadgeLayer, px, py) \/ LayerPixel(BadgeLayer, px, py).a = 0)
        => PixelAt(comp.composite, px, py) = PixelAt(comp.bg, px, py)

\* base64 text in canonical form (RFC 4648): whole groups of four alphabet
\* characters, "=" only as the last one or two characters, unused bits zero
CanonicalBase64(s) ==
  LET n == Len(s) IN
  /\ n % 4 = 0
  /\ \A i \in 1..n : IsB64Char(s[i]) \/ (s[i] = "=" /\ i >= n - 1)
  /\ n > 0 =>
       /\ s[n - 1] = "=" => (s[n] = "=" /\ B64Val(s[n - 2]) % 16 = 0)
       /\ (s[n] = "=" /\ s[n - 1] # "=") => B64Val(s[n - 1]) % 4 = 0

\* C10: a badge string that is an existing path is loaded from disk, even
\* when it is also valid base64; otherwise, a base64 string is decoded and
\* used as inline image bytes, and (the bytes being an image, and the base,
\* the padding and the output target being usable) the composite succeeds.
C10_BadgeResolution ==
  (Called /\ comp.from # "") =>
    /\ Exists(fs0, arg.foreground) =>
         /\ comp.from = "disk"
         /\ comp.fg # NoImage =>
              /\ comp.fg.size = fs0[arg.foreground].img.size
              /\ comp.fg.layers[1].id = fs0[arg.foreground].img.layers[1].id
    /\ (~Exists(fs0, arg.foreground) /\ CanonicalBase64(arg.foreground)) =>
         /\ comp.from = "inline"
         /\ b64encode(comp.bytes) = arg.foreground
         /\ (ImageOpenBytes(comp.bytes).exc = "" /\ comp.bg # NoImage) =>
              /\ comp.fg.layers[1].id = "inline"
              /\ (/\ ~InvalidPadding(PaddingGiven)
                  /\ fs0[arg.output_path].perm = "rw"
                  /\ fs0[arg.output_path].dir) =>
                   /\ pc = "returned"
                   /\ fs[arg.output_path].kind = "image"
                   /\ fs[arg.output_path].img.layers = comp.composite.layers

\* a file named "icon" (valid base64) exists and is the badge that is pasted
C10_Witness ==
  /\ pc = "returned"
  /\ arg.foreground = IconName
  /\ is_base64(arg.foreground)
  /\ comp.from = "disk"
  /\ comp.fg.size = <<32, 32>>

(***************************************************************************)
(* Properties of save_icon_to_destination, checked under SpecNormalize.    *)
(***************************************************************************)
\* the icon file the call was given, as it was opened
SourceFile == fs0[arg.icon_path]

\* C6: every image the call writes is square at the canonical size
\* (256 x 256) and has four channels (RGBA), whatever the source format,
\* pixel mode and platform branch.
C6_WrittenIconIsCanonicalRGBA ==
  pc = "returned" =>
    /\ fs[arg.output_path].kind = "image"
    /\ fs[arg.output_path].img.size = Canonical
    /\ Channels(fs[arg.output_path].img.mode) = 4

\* the source shows a representation of exactly 256 x 256 pixels
ExposesCanonical(img) ==
  IF img.hasSizes THEN \E t \in img.sizes : RepPixels(t) = Canonical
  ELSE img.size = Canonical

\* the source was opened and the size logic ran to its end
Normalized == Called /\ norm.how # ""

FindsCanonical(plat, img) ==
  IF plat = "mac"
  THEN <<128, 128, 2>> \in img.sizes \/ <<256, 256>> \in img.sizes
  ELSE IF img.format = "ICO"
  THEN /\ <<256, 256>> \in img.sizes
       /\ <<1024, 1024>> \notin img.sizes
       /\ <<512, 512>> \notin img.sizes
  ELSE img.format = "PNG" /\ img.size = <<256, 256>>

C8_SourceNotFoundNamesSource ==
  (Called /\ ~Exists(fs0, arg.icon_path)) =>
    /\ raised = "ProcessorError"
    /\ norm.msg = "Unable to open the source icon at path {}."
    /\ norm.path = arg.icon_path

(***************************************************************************)
(* Properties of main, checked under Spec.                                 *)
(***************************************************************************)
\* main is over and had saved the plain icon, so that it came to the
\* composites
Finished == pc \in {"done", "raised"} /\ env["app_icon_path"] # Absent

\* the three composites are asked for and c is the one whose output path
\* cannot be written
OnlyUnwritable(c) ==
  /\ \A k \in Kinds : Truthy(env[PathKey(k)])
  /\ fs0[CompositePath(c)].perm = "none"
  /\ \A k \in Kinds \ {c} : fs0[CompositePath(k)].perm # "none"

WrittenAndSet(k) ==
  /\ fs[CompositePath(k)].kind = "image"
  /\ env[OutputKey(k)] = StrVal(CompositePath(k))

Untouched(k) ==
  /\ fs[CompositePath(k)] = fs0[CompositePath(k)]
  /\ env[OutputKey(k)] = Absent

Rank(k) == CASE k = "install" -> 1 [] k = "uninstall" -> 2 [] OTHER -> 3

\* C5, as stated: with the three composites asked for and exactly one output
\* path unwritable, only that composite fails; the other two are written and
\* their output variables set, whichever of the three fails.
C5_OnlyUnwritableFails ==
  \A c \in Kinds :
    (Finished /\ OnlyUnwritable(c)) =>
      /\ Untouched(c)
      /\ \A k \in Kinds \ {c} : WrittenAndSet(k)

\* C5, amended: the unwritable composite fails with ProcessorError naming its
\* output path and main stops there; the composites before it in main's order
\* (install, uninstall, update) are written and their variables set, the
\* failing one and those after it are neither written nor set.
C5_FirstFailureStopsMain ==
  \A c \in Kinds :
    (Finished /\ OnlyUnwritable(c)) =>
      /\ pc = "raised"
      /\ raised = "ProcessorError"
      /\ comp.msg = "Unable to save output to {}"
      /\ comp.path = CompositePath(c)
      /\ \A k \in Kinds :
           IF Rank(k) < Rank(c) THEN WrittenAndSet(k) ELSE Untouched(k)

\* main stopped at the uninstall composite: install is written, update is not
C5_Witness ==
  /\ Finished
  /\ OnlyUnwritable("uninstall")
  /\ pc = "raised"
  /\ WrittenAndSet("install")
  /\ Untouched("update")

\* the source icon that main located cannot be read as an image: no path
\* was found (Windows), or Image.open fails on the file
UnreadableSource ==
  \/ arg.icon_path = NoPath
  \/ ImageOpen(fs0, arg.icon_path).exc # ""

\* C9: when save_icon_to_destination fails because the source is not a
\* readable image, no file is created at the icon output path (nor at any
\* composite path) and app_icon_path is not set.
C9_UnreadableSourceLeavesNothing ==
  (norm.exc # "" /\ UnreadableSource) =>
    /\ fs[IconOutputPath(env)].kind = "none"
    /\ \A k \in Kinds : fs[CompositePath(k)].kind = "none"
    /\ env["app_icon_path"] = Absent
    /\ pc = "raised"

\* the source is a file that is no image, the icon output path is given
C9_Witness ==
  /\ pc = "raised"
  /\ norm.exc = "ProcessorError"
  /\ fs0[SrcIcon].kind = "data"
  /\ arg.icon_path = SrcIcon
  /\ Truthy(env["icon_output_path"])
  /\ fs[OutIcon].dir

(***************************************************************************)
(* Further properties of composite_icon, checked under SpecComposite.      *)
(***************************************************************************)
\* the badge string resolves to nothing that Image.open can read
BadgeUnusable ==
  OpenForeground(fs0, ResolveForeground(fs0, arg.foreground)).exc # ""

\* C11: when the badge string is neither an existing path nor decodable to
\* valid image data (the base being readable), the call fails with a
\* ProcessorError, never with an unclassified exception, and writes nothing.
C11_InvalidBadgeIsProcessorError ==
  (Called /\ comp.bg # NoImage /\ BadgeUnusable) =>
    /\ raised = "ProcessorError"
    /\ fs = fs0

Abs(n) == IF n < 0 THEN -n ELSE n

\* the gaps between the badge's box and the two edges of the base that meet
\* at the anchor corner, and the margins left to the two opposite edges
CornerGap(position, bgsize, fgsize, coords) ==
  << IF position \in {UL, BL} THEN coords[1] ELSE bgsize[1] - (coords[1] + fgsize[1]),
     IF position \in {UL, UR} THEN coords[2] ELSE bgsize[2] - (coords[2] + fgsize[2]) >>

FarMargin(position, bgsize, fgsize, coords) ==
  << IF position \in {UL, BL} THEN bgsize[1] - (coords[1] + fgsize[1]) ELSE coords[1],
     IF position \in {UL, UR} THEN bgsize[2] - (coords[2] + fgsize[2]) ELSE coords[2] >>

\* by how much a second padding exceeds the first
PaddingSteps == {1, DefaultPadding, MaxPadSteps * DefaultPadding}

\* C17: for a fixed anchor, base and badge and non-negative integer paddings
\* p1 < p2, the paste point under p2 is p2 - p1 away from the paste point
\* under p1 on both axes, the gap between the badge and the two base edges
\* at the anchor corner is the padding, and the margins to the two opposite
\* edges (W - w - p, H - h - p) are strictly smaller under p2.
C17_PaddingMovesBadgeInward ==
  (Pasted /\ comp.pad.t = "int" /\ comp.pad.n >= 0) =>
    LET p1 == comp.pad.n
        W == comp.bg.size[1]  H == comp.bg.size[2]
        w == comp.fg.size[1]  h == comp.fg.size[2]
    IN
    /\ CornerGap(comp.position, comp.bg.size, comp.fg.size, comp.coords) = << p1, p1 >>
    /\ FarMargin(comp.position, comp.bg.size, comp.fg.size, comp.coords)
         = << W - w - p1, H - h - p1 >>
    /\ \A d \in PaddingSteps :
         LET p2  == p1 + d
             two == composite_icon(platform,
                                   [env EXCEPT !["composite_padding"] = IntVal(p2)],
                                   fs0, arg.icon_path, arg.foreground, arg.output_path)
         IN /\ two.bg = comp.bg /\ two.fg = comp.fg /\ two.position = comp.position
            /\ Abs(two.coords[1] - comp.coords[1]) = p2 - p1
            /\ Abs(two.coords[2] - comp.coords[2]) = p2 - p1
            /\ CornerGap(two.position, two.bg.size, two.fg.size, two.coords) = << p2, p2 >>
            /\ FarMargin(two.position, two.bg.size, two.fg.size, two.coords)[1]
                 < FarMargin(comp.position, comp.bg.size, comp.fg.size, comp.coords)[1]
            /\ FarMargin(two.position, two.bg.size, two.fg.size, two.coords)[2]
                 < FarMargin(comp.position, comp.bg.size, comp.fg.size, comp.coords)[2]

\* an upper-right paste with padding 20 on a 256 x 256 base: the badge is
\* 20 from the top and right edges, 172 from the left and bottom edges
C17_Witness ==
  /\ pc = "returned"
  /\ PositionGiven = StrVal(UR)
  /\ PaddingGiven = IntVal(2 * DefaultPadding)
  /\ comp.bg.size = Canonical
  /\ comp.fg.size = << DefaultBadgeSize, DefaultBadgeSize >>
  /\ comp.coords = << 172, 20 >>

\* the base as composite_icon opens it and brings it to 256px
OpenedBase == OntoCanvas(BgPick256(platform, fs0[arg.icon_path].img).img)

\* C18: composite_icon has no effect other than writing its output target:
\* the source icon file, the badge file and every other file stay as they
\* were, the base that was opened is not altered by the paste (which is made
\* on a copy), and no key of the processor environment changes.
C18_CompositeFrame ==
  /\ [](Called =>
         /\ \A p \in Paths \ {arg.output_path} : fs[p] = fs0[p]
         /\ fs[arg.icon_path] = fs0[arg.icon_path]
         /\ Exists(fs0, arg.foreground) => fs[arg.foreground] = fs0[arg.foreground]
         /\ Pasted => comp.bg = OpenedBase)
  /\ [][env' = env]_vars

\* a badge file was pasted and the composite written: the badge file and the
\* opened base are as before, only the output target is new
C18_Witness ==
  /\ pc = "returned"
  /\ comp.from = "disk"
  /\ fs[arg.foreground] = fs0[arg.foreground]
  /\ fs[arg.output_path] # fs0[arg.output_path]
  /\ comp.bg = OpenedBase
  /\ comp.composite # comp.bg

\* the composite as the call wrote it
WrittenComposite == fs[arg.output_path].img

\* C16: for a source image without alpha channel, the composite written has
\* four channels and every pixel of it outside the badge's box has full
\* opacity (alpha 255).
C16_OpaqueSourceStaysOpaque ==
  (pc = "returned" /\ Channels(SourceFile.img.mode) < 4) =>
    /\ Channels(WrittenComposite.mode) = 4
    /\ \A px \in ProbeAlong(comp.coords[1], comp.fg.size[1], WrittenComposite.size[1]),
          py \in ProbeAlong(comp.coords[2], comp.fg.size[2], WrittenComposite.size[2]) :
         ~Covers(BadgeLayer, px, py) => PixelAt(WrittenComposite, px, py).a = 255

\* a 100 x 50 RGB source: the composite is 256 x 256 and RGBA, and opaque
\* also where the source does not reach
C16_Witness ==
  /\ pc = "returned"
  /\ SourceFile.img.mode = "RGB"
  /\ SourceFile.img.size = <<100, 50>>
  /\ WrittenComposite.mode = "RGBA"
  /\ WrittenComposite.size = Canonical
  /\ ~Covers(BadgeLayer, 255, 0)
  /\ PixelAt(WrittenComposite, 255, 0).a = 255

(***************************************************************************)
(* Further properties of main, checked under Spec.                         *)
(***************************************************************************)
\* main came to its end without an exception: after the unmount step, or by
\* one of the `return None` of lines 596-606
ReturnedNormally == pc \in {"done", "returned"}

\* C12: every failure in main leaves it as a ProcessorError, and main never
\* returns normally without having written the plain icon and set
\* app_icon_path.
C12_FailureRaisesProcessorError ==
  /\ pc = "raised" => raised = "ProcessorError"
  /\ ReturnedNormally =>
       /\ fs[IconOutputPath(env)].kind = "image"
       /\ env["app_icon_path"] = StrVal(IconOutputPath(env))

\* the plain icon as main's save_icon_to_destination call wrote it
PlainIcon == fs[IconOutputPath(env)].img

\* the pixels at which two 256 x 256 images are compared
BaseProbes == {0, 1, CanonicalSize \div 2, CanonicalSize - 1}

\* C13: the base that composite_icon pastes the badge onto is equal to the
\* image save_icon_to_destination produced for the same source in the same
\* run of main: same size, same pixel format, same pixels.
C13_CompositeBaseIsNormalizedIcon ==
  (comp.ret # NoPath /\ Truthy(env["app_icon_path"])) =>
    /\ comp.bg.size = PlainIcon.size
    /\ comp.bg.mode = PlainIcon.mode
    /\ \A px \in BaseProbes, py \in BaseProbes :
         PixelAt(comp.bg, px, py) = PixelAt(PlainIcon, px, py)

CanonicalRGBA(file) ==
  /\ file.kind = "image"
  /\ file.perm = "rw"
  /\ file.img.size = Canonical
  /\ file.img.mode = "RGBA"

\* C15: save_icon_to_destination applied to an image that is already
\* 256 x 256 and RGBA (the output target being writable) succeeds and writes
\* an image of the same size, pixel format and pixels, on every platform
\* branch; this holds as well when the input is the output of an earlier
\* call.
C15_NormalizeIdempotent ==
  (/\ Called
   /\ CanonicalRGBA(fs[arg.icon_path])
   /\ fs0[arg.output_path].perm = "rw"
   /\ fs0[arg.output_path].dir) =>
    /\ pc = "returned"
    /\ fs[arg.output_path].kind = "image"
    /\ fs[arg.output_path].img.size = fs[arg.icon_path].img.size
    /\ fs[arg.output_path].img.mode = fs[arg.icon_path].img.mode
    /\ \A px \in BaseProbes, py \in BaseProbes :
         PixelAt(fs[arg.output_path].img, px, py) = PixelAt(fs[arg.icon_path].img, px, py)

\* the badge was pasted and composite.save then failed
WriteFailed ==
  /\ Called
  /\ comp.composite # NoImage
  /\ ImageSave(fs0, arg.output_path, comp.composite).exc # ""

\* C19: when the output target cannot be written, composite_icon fails with
\* a ProcessorError that names the output path, for a permission error as
\* for any other I/O error; no such error leaves the call unclassified.
C19_WriteFailureIsProcessorError ==
  WriteFailed =>
    /\ pc = "raised"
    /\ raised = "ProcessorError"
    /\ comp.msg = "Unable to save output to {}"
    /\ comp.path = arg.output_path

\* the directory of the output target does not exist (FileNotFoundError, an
\* I/O error that is no permission error)
C19_Witness ==
  /\ WriteFailed
  /\ ~fs0[arg.output_path].dir
  /\ ImageSave(fs0, arg.output_path, comp.composite).exc = "FileNotFoundError"
  /\ raised = "ProcessorError"
  /\ comp.path = arg.output_path

(***************************************************************************)
(* Properties of StringInserter, checked under SpecInsert.                 *)
(***************************************************************************)
\* where s[:i] ends: i itself within the string, the end beyond it, and
\* counted from the end (but not before the start) when negative
InsertPoint(index, n) ==
  IF index = StrVal(Suffix) THEN n
  ELSE IF index.n > n THEN n
  ELSE IF index.n >= 0 THEN index.n
  ELSE IF n + index.n >= 0 THEN n + index.n
  ELSE 0

\* the output variable as main set it
InserterOutput == env[InserterKey(arg.output_variable_name)]

\* C20: for every input string s, insertion string t and integer index i
\* (or index "suffix") StringInserter sets the output to s[:i] + t + s[i:]
\* (s + t for "suffix"): its length is len(s) + len(t), t stands in it as a
\* contiguous block at the place of the index, and without that block it is
\* s; this includes negative indices and indices beyond the end of s.
C20_InsertsAtIndex ==
  (Called /\ (arg.index.t = "int" \/ arg.index = StrVal(Suffix))) =>
    LET s   == arg.input_string
        t   == arg.insertion_string
        out == InserterOutput.s
        k   == InsertPoint(arg.index, Len(s))
    IN /\ pc = "returned"
       /\ InserterOutput.t = "str"
       /\ Len(out) = Len(s) + Len(t)
       /\ SubSeq(out, k + 1, k + Len(t)) = t
       /\ SubSeq(out, 1, k) \o SubSeq(out, k + Len(t) + 1, Len(out)) = s

\* "a" inserted at index -1 of "ab" gives "aab"
C20_Witness ==
  /\ pc = "returned"
  /\ arg.input_string = << "a", "b" >>
  /\ arg.insertion_string = << "a" >>
  /\ arg.index = IntVal(-1)
  /\ InserterOutput = StrVal(<< "a", "a", "b" >>)

(***************************************************************************)
(* Properties of DatadogEventPoster, checked under SpecDatadog.            *)
(***************************************************************************)
\* C21: when download_changed is falsy and IGNORE_UNCHANGED_DOWNLOAD is
\* falsy, the run posts no event and sets neither output variable; in every
\* other combination of the two flags it makes exactly one POST.
C21_PostsUnlessUnchanged ==
  Called =>
    IF ~Truthy(env["download_changed"]) /\ ~Truthy(env["IGNORE_UNCHANGED_DOWNLOAD"])
    THEN /\ http.requests = << >>
         /\ env["datadog_event_id"] = Absent
         /\ env["datadog_event_url"] = Absent
    ELSE /\ Len(http.requests) = 1
         /\ http.requests[1].method = "POST"

\* the download is unchanged and IGNORE_UNCHANGED_DOWNLOAD is true: one POST
C21_Witness ==
  /\ pc = "returned"
  /\ env["download_changed"] = BoolVal(FALSE)
  /\ env["IGNORE_UNCHANGED_DOWNLOAD"] = BoolVal(TRUE)
  /\ Len(http.requests) = 1

\* C28: after main returns, datadog_event_id and datadog_event_url are both
\* set from the response received, or both unset; no response, failed or
\* malformed, leaves one set without the other, and none makes main raise.
C28_EventOutputsTogether ==
  (Called /\ http.requests # << >>) =>
    /\ pc = "returned"
    /\ \/ /\ env["datadog_event_id"] = Absent
          /\ env["datadog_event_url"] = Absent
       \/ /\ http.response.kind = "json"
          /\ env["datadog_event_id"] = IntVal(http.response.id)
          /\ env["datadog_event_url"] = StrVal(http.response.url)

(***************************************************************************)
(* Properties of JSONWebhookSender, checked under SpecWebhook.             *)
(***************************************************************************)
SentPayload == http.requests[1].payload

IncludedNames ==
  LET l == EnvGet(env, "json_webhook_include_autopkg_variables", ListVal(<< >>)).s
  IN {l[i] : i \in 1..Len(l)}

AdditionalFields ==
  IF Truthy(env["json_webhook_additional_fields"])
  THEN env["json_webhook_additional_fields"].d
  ELSE << >>

\* C22: the payload sent holds name = NAME; version only when version is
\* set; one entry for each name listed in
\* json_webhook_include_autopkg_variables with that variable's value in the
\* environment; and the json_webhook_additional_fields, applied last: where
\* keys collide an additional field wins over an included variable, which
\* wins over name and version.
C22_PayloadPrecedence ==
  Called =>
    /\ Len(http.requests) = 1
    /\ DOMAIN SentPayload =
         {"name"} \cup (IF Truthy(env["version"]) THEN {"version"} ELSE {})
                  \cup IncludedNames \cup DOMAIN AdditionalFields
    /\ \A k \in DOMAIN SentPayload :
         SentPayload[k] =
           IF k \in DOMAIN AdditionalFields THEN AdditionalFields[k]
           ELSE IF k \in IncludedNames THEN env[k]
           ELSE IF k = "name" THEN env["NAME"]
           ELSE env["version"]

\* "pkg" and "version" are included variables and additional fields as
\* well: the payload holds the additional fields' values
C22_Witness ==
  /\ pc = "returned"
  /\ IncludedNames = {"version", "pkg"}
  /\ DOMAIN AdditionalFields = {"pkg", "version"}
  /\ env["pkg"] = StrVal(<< "p" >>)
  /\ SentPayload["pkg"] = StrVal(<< "s" >>)
  /\ SentPayload["name"] = env["NAME"]

(***************************************************************************)
(* Properties of DatetimeOutputter, checked under SpecDatetime.            *)
(***************************************************************************)
RequestedDeltas == IF Truthy(env["deltas"]) THEN env["deltas"].s ELSE << >>

\* a delta with an interval of timedelta's keys, a direction, an
\* output_name and, if any, a format that is a string
WellFormedDelta(d) ==
  /\ {"interval", "direction", "output_name"} \subseteq DOMAIN d
  /\ DOMAIN d["interval"] \subseteq TimedeltaKeys
  /\ "format" \in DOMAIN d => d["format"].t = "str"

DeltaFormat(d) == IF "format" \in DOMAIN d THEN d["format"].s ELSE DefaultFormat

\* the instant written to datetime, minus or plus the delta's interval
DeltaInstant(d) ==
  IF d["direction"] = "past"
  THEN Shift(CurrentDatetime(env, arg), 0 - Timedelta(d["interval"]))
  ELSE Shift(CurrentDatetime(env, arg), Timedelta(d["interval"]))

\* the literal time a format ends in, if it ends in one
EndsInLiteralTime(d) ==
  /\ DeltaFormat(d) # << >>
  /\ DeltaFormat(d)[Len(DeltaFormat(d))] \in {"T17:55:00Z", "T25:00:00Z"}

LiteralHour(d) ==
  IF DeltaFormat(d)[Len(DeltaFormat(d))] = "T17:55:00Z" THEN 17 ELSE 25

LiteralMinute(d) ==
  IF DeltaFormat(d)[Len(DeltaFormat(d))] = "T17:55:00Z" THEN 55 ELSE 0

WritingDelta(d) ==
  /\ WellFormedDelta(d)
  /\ EndsInLiteralTime(d) => LiteralHour(d) <= 23

C26_MalformedDeltaIsolated ==
  (Called /\ EnvGet(env, "datetime_format", StrVal(<< >>)).t = "str") =>
    /\ pc = "returned"
    /\ env["datetime"].t = "str"
    /\ \A i \in 1..Len(RequestedDeltas) :
         LET d == RequestedDeltas[i]
         IN /\ WritingDelta(d) => env[d["output_name"]].t = "str"
            /\ ("output_name" \in DOMAIN d
                /\ \A j \in 1..Len(RequestedDeltas) :
                     "output_name" \in DOMAIN RequestedDeltas[j]
                     /\ RequestedDeltas[j]["output_name"] = d["output_name"]
                     => ~WritingDelta(RequestedDeltas[j]))
               => env[d["output_name"]] = Absent

(***************************************************************************)
(* Properties of the ways out of main, checked under Spec.                 *)
(***************************************************************************)
\* main is over: it came to its end, returned early, or raised
MainOver == pc \in {"done", "returned", "raised"}

\* C24: when the source lies in a disk image and the image was mounted, the
\* image is unmounted by the time main is over, however main is left: at
\* its end, by an early return, or by a raised error.
C24_UnmountedOnEveryExit == MainOver => ~mounted

\* C25: after main completes normally app_icon_path is set, and each
\* k_icon_path is set if and only if composite_k_path was supplied, to that
\* path; and by the time a composite is attempted the plain icon is written
\* and app_icon_path is set.
C25_OutputsAfterMain ==
  /\ ReturnedNormally =>
       /\ Truthy(env["app_icon_path"])
       /\ \A k \in Kinds :
            /\ Truthy(env[OutputKey(k)]) <=> Truthy(env[PathKey(k)])
            /\ Truthy(env[PathKey(k)]) => env[OutputKey(k)] = env[PathKey(k)]
  /\ (pc \in Kinds \/ comp # NoComp) =>
       /\ fs[IconOutputPath(env)].kind = "image"
       /\ env["app_icon_path"] = StrVal(IconOutputPath(env))

(***************************************************************************)
(* Properties of FleetSoftwareUploader, checked under SpecFleet.           *)
(***************************************************************************)
\* the reason of the first error of the response, "Unknown error" without
FirstReason ==
  IF /\ http.response.errors # Absent
     /\ http.response.errors.s # << >>
     /\ "reason" \in DOMAIN http.response.errors.s[1]
  THEN http.response.errors.s[1]["reason"]
  ELSE "Unknown error"

\* C27: main makes exactly one upload request and classifies the JSON
\* response by its message: no message and "Resource Already Exists" are
\* successes; "Bad request" is a ProcessorError carrying the first error's
\* reason, or "Unknown error"; any other message is a ProcessorError.
C27_ClassifiedByMessage ==
  Called =>
    /\ Len(http.requests) = 1
    /\ http.response.kind = "json" =>
         CASE http.response.message = Absent -> pc = "returned"
           [] http.response.message = StrVal(<< "Resource Already Exists" >>) ->
                pc = "returned"
           [] http.response.message = StrVal(<< "Bad request" >>) ->
                /\ raised = "ProcessorError"
                /\ arg.message = << "Failure: ", FirstReason >>
           [] OTHER -> raised = "ProcessorError"

====
